---- MODULE Spec2Model ----
(***************************************************************************)
(* CME candidate detection: the event merger of CMEDetectionSystem, the    *)
(* composite scorer and threshold flags of final_processing, the composite *)
(* per-instrument detection and the validation metrics of                  *)
(* ThresholdOptimizer.                                                     *)
(*                                                                         *)
(* Time is in minutes on a 30-minute grid.  A confidence is a number of    *)
(* thirds (0..3 stands for 0, 1/3, 2/3, 1).  A ratio that the code keeps   *)
(* as a float is kept exactly, as a pair <<numerator, denominator>>.       *)
(***************************************************************************)
EXTENDS Integers, Sequences, FiniteSets, TLC

VARIABLES
    \* CMEDetectionSystem (cme_detection_system.py)
    detection_results,  \* self.detection_results: instrument -> rows
    combined_events,    \* merge_detections: the sorted detected rows
    merged_events,      \* merge_detections: the events emitted so far
    window_log,         \* per event, the positions of its window_events
    i,                  \* merge_detections: the loop index
    merge_result,       \* what merge_detections returned
    \* final_processing.py: the L2_BLK columns and what is computed from them
    proton_density,
    proton_bulk_speed,
    proton_thermal,
    alpha_density,
    score,              \* calculate_cme_score: the returned array
    score_terms,        \* per element, the four contributions added to score
    signatures,         \* detect_cme_speed_signatures: the returned arrays
    threshold_flags,    \* detect_cme_thresholds: the returned arrays
    \* CMEDetectionSystem.composite_cme_detection
    processed_data,     \* self.processed_data: instrument -> rows
    detect_todo,        \* the instruments the loop has still to visit
    all_detections,     \* the instruments whose frame was appended
    \* ThresholdOptimizer._calculate_validation_metrics
    detections,         \* the detections frame: rows (detection_time, instrument)
    synthetic_events,   \* the reference frame: rows (start_time, instrument)
    tolerance_hours,
    detection_times,    \* the set of (detection_time, instrument)
    synthetic_times,    \* the set of (start_time, instrument)
    synth_todo,         \* what the first loop has still to visit
    det_todo,           \* what the second loop has still to visit
    true_positives,
    false_negatives,
    false_positives,
    metrics,            \* the returned dict
    \* CMEDetectionSystem.validate_cme_events (its argument is merged_events)
    min_duration_hours,
    min_instruments,
    min_confidence,   \* a ratio
    valid_events,   \* the returned rows
    validate_result,   \* "pending", "empty" (pd.DataFrame()) or "frame"
    \* ThresholdOptimizer.calculate_background_statistics, one parameter
    bg_raw,   \* df[param]: the values, row k at day k
    param_data,   \* after replace, ffill and bfill
    window_days,
    chunk_size,
    chunks,   \* the chunk frames built so far
    bg_stats,   \* the _bg_ columns of df, a record per row
    \* CMEDetectionSystem.derive_features and the detect_* functions on swepam
    signature_flags,   \* the three Series the detect_* functions return
    \* merge_detections called twice by the same caller
    merge_calls,   \* the calls that have returned to the caller
    first_result,   \* what the first call returned
    results_before,   \* self.detection_results before the first call
    \* final_processing.main, and calculate_alpha_to_proton_ratio / calculate_dynamic_pressure
    L2_BLK_data,   \* the converted L2 frame: column name -> values
    final_output,   \* the frame of the computed columns
    out_csv,   \* the written CSV file, <<>> while there is none
    main_error,   \* the exception main raised, <<>> while there is none
    df_arg,   \* the frame df handed to the two derivation functions
    fn_error,   \* the exception a derivation function raised, "" while there is none
    \* the exceptions caught per instrument in load_data, derive_features and composite_cme_detection
    data_files,   \* the CSV file of each instrument under data_path
    data,   \* self.data
    error_log,   \* the instruments whose exception was logged, in order
    step_before,   \* the result map of the step as it was when the step began
    \* SWISDataLoader.detect_cme_candidates (swis_data_loader.py)
    swis_len,   \* number of rows of df
    swis_cells,   \* the rows of df that differ from the quiet row
    background,   \* background[param][k]; rows without a full window (NaN) are left out
    candidates,   \* the returned list of events
    \* detect_events (preprocessing_cdf_file.py)
    events_df,   \* the frame: its columns and its rows
    events_args,   \* detect_var, threshold, min_duration, comparison
    events_out,   \* the returned frame of events
    events_error,   \* the exception the call raised, or "none"
    \* ThresholdOptimizer: statistical thresholds (threshold_optimization.py)
    sigma_df,   \* processed_data["swepam"]: its columns and its rows
    background_stats,   \* self.background_stats["swepam"]
    optimal_thresholds,   \* self.optimal_thresholds["swepam"]
    sigma_todo,   \* the threshold sets still to test
    sigma_detections,   \* threshold set -> the detections it produced
    \* CMEDetectionSystem.run_full_analysis (cme_detection_system.py)
    figure_saved,   \* cme_detection_overview.png has been written
    report_written,   \* cme_detection_report.txt has been written
    analysis_result,   \* "pending", "valid_events" or the exception raised
    pc                  \* position of the running operation

mergeVars == <<detection_results, combined_events, merged_events, window_log,
               i, merge_result>>

inputVars == <<proton_density, proton_bulk_speed, proton_thermal, alpha_density>>

finalVars == <<inputVars, score, score_terms, signatures, threshold_flags>>

detectVars == <<processed_data, detect_todo, all_detections>>

metricVars ==
    <<detections, synthetic_events, tolerance_hours, detection_times, synthetic_times,
      synth_todo, det_todo, true_positives, false_negatives, false_positives, metrics>>

validateVars == <<min_duration_hours, min_instruments, min_confidence, valid_events, validate_result>>

backgroundVars == <<bg_raw, param_data, window_days, chunk_size, chunks, bg_stats>>

deriveVars == <<signature_flags>>

twiceVars == <<merge_calls, first_result, results_before>>

mainVars == <<L2_BLK_data, final_output, out_csv, main_error, df_arg, fn_error>>

isolationVars == <<data_files, data, error_log, step_before>>

candidateVars == <<swis_len, swis_cells, background, candidates>>

eventVars == <<events_df, events_args, events_out, events_error>>

sigmaVars == <<sigma_df, background_stats, optimal_thresholds, sigma_todo, sigma_detections>>

analysisVars == <<figure_saved, report_written, analysis_result>>

vars == <<mergeVars, finalVars, detectVars, metricVars, validateVars, backgroundVars, deriveVars, twiceVars, mainVars, isolationVars, candidateVars, eventVars, sigmaVars, analysisVars, pc>>

-----------------------------------------------------------------------------
(* Bounds of the model *)

MaxTick == 6
MaxDet == 3

Times == {30 * k : k \in 0..MaxTick}

-----------------------------------------------------------------------------
(* Exact ratios *)

RatLeq(a, b) == a[1] * b[2] <= b[1] * a[2]
RatLt(a, b) == a[1] * b[2] < b[1] * a[2]
RatEq(a, b) == a[1] * b[2] = b[1] * a[2]

RECURSIVE SumSeq(_)
SumSeq(s) == IF s = <<>> THEN 0 ELSE Head(s) + SumSeq(Tail(s))

SetMax(S) == CHOOSE x \in S : \A y \in S : y <= x
SetMin(S) == CHOOSE x \in S : \A y \in S : x <= y

-----------------------------------------------------------------------------
(* CMEDetectionSystem.merge_detections *)

Instruments == {"swepam", "mag", "epam", "sis"}

time_window_hours == 2

time_window == time_window_hours * 60

\* The rows of one instrument with cme_detected == True, each with its
\* source_instrument (lines 391-395).
DetectedRows(instrument) ==
    LET det == detection_results[instrument]
        hit == SelectSeq(det, LAMBDA r : r.cme_detected = "True")
    IN  [k \in 1..Len(hit) |->
            [datetime |-> hit[k].datetime,
             confidence |-> hit[k].confidence,
             source_instrument |-> instrument]]

\* all_events, as the bag of detected rows of every instrument.
RECURSIVE ConcatAll(_)
ConcatAll(S) ==
    IF S = {} THEN <<>>
    ELSE LET inst == CHOOSE x \in S : TRUE
         IN  DetectedRows(inst) \o ConcatAll(S \ {inst})

IsSortedByDatetime(s) ==
    \A k \in 1..(Len(s) - 1) : s[k].datetime <= s[k + 1].datetime

\* sort_values('datetime'): every arrangement of the rows in datetime order
\* (the order of rows with equal datetime is not fixed by the sort).
SortValues(rows) ==
    LET n == Len(rows)
        perms == {p \in [1..n -> 1..n] : \A a, b \in 1..n : a # b => p[a] # p[b]}
    IN  {s \in {[k \in 1..n |-> rows[p[k]]] : p \in perms} : IsSortedByDatetime(s)}

\* A window that is half an hour longer.
event_end_late(event_start) == event_start + time_window + 30

\* Line 410.
event_end(event_start) == event_start + time_window

\* A window that ends before event_end: a detection exactly time_window after
\* the start is left out of the event.
window_events_open(ce, start, end) ==
    {k \in 1..Len(ce) : ce[k].datetime >= start /\ ce[k].datetime < end}

\* A window that follows the chain: every detection reached from the start
\* through gaps of at most the window length.
window_events_chained(ce, start, end) ==
    {k \in 1..Len(ce) :
        /\ ce[k].datetime >= start
        /\ \A j \in 1..(k - 1) :
               ce[j].datetime >= start =>
                   ce[j + 1].datetime - ce[j].datetime <= end - start}

\* The positions of window_events (lines 412-415).
window_events(ce, start, end) ==
    {k \in 1..Len(ce) : ce[k].datetime >= start /\ ce[k].datetime <= end}

\* An advance that counts the detections before the start of the window.
NextIndexBeforeStart(ce, end) ==
    Cardinality({k \in 1..Len(ce) : ce[k].datetime < end - time_window})

\* An advance that counts only the detections before event_end.
NextIndexBefore(ce, end) == Cardinality({k \in 1..Len(ce) : ce[k].datetime < end})

\* len(combined_events[combined_events['datetime'] <= event_end]) (line 428).
NextIndex(ce, end) == Cardinality({k \in 1..Len(ce) : ce[k].datetime <= end})

\* The merged_event record (lines 417-425).
merged_event(ce, w) ==
    LET times == {ce[k].datetime : k \in w}
        confs == {ce[k].confidence : k \in w}
        sources == {ce[k].source_instrument : k \in w}
        order == CHOOSE s \in [1..Cardinality(w) -> w] :
                     \A a, b \in 1..Cardinality(w) : a < b => s[a] < s[b]
    IN  [start_time |-> SetMin(times),
         end_time |-> SetMax(times),
         duration_hours |-> <<SetMax(times) - SetMin(times), 60>>,
         instruments |-> sources,
         num_instruments |-> Cardinality(sources),
         avg_confidence |->
             <<SumSeq([k \in 1..Cardinality(w) |-> ce[order[k]].confidence]),
               3 * Cardinality(w)>>,
         max_confidence |-> <<SetMax(confs), 3>>]

\* Lines 392-394 written on the stored frame: every frame gains the column
\* source_instrument.
StoredResultsTagged(dr) ==
    [inst \in DOMAIN dr |->
        [k \in 1..Len(dr[inst]) |->
            [x \in DOMAIN dr[inst][k] \cup {"source_instrument"} |->
                IF x = "source_instrument" THEN inst ELSE dr[inst][k][x]]]]

\* Lines 392-394: the selected rows are a copy, and source_instrument is
\* added to the copy: the frames of self.detection_results stay as they are.
StoredResults(dr) == dr

\* Lines 386-405: the early returns, then concat and sort.
MergeStart ==
    /\ pc = "merge"
    /\ IF DOMAIN detection_results = {}
       THEN /\ merge_result' = "None"
            /\ pc' = "merged"
            /\ UNCHANGED combined_events
       ELSE LET all == ConcatAll(DOMAIN detection_results)
            IN  IF all = <<>>
                THEN /\ merge_result' = "empty"
                     /\ pc' = "merged"
                     /\ UNCHANGED combined_events
                ELSE /\ combined_events' \in SortValues(all)
                     /\ pc' = "merge_loop"
                     /\ UNCHANGED merge_result
    /\ i' = 0
    /\ merged_events' = <<>>
    /\ window_log' = <<>>
    /\ detection_results' = StoredResults(detection_results)
    /\ UNCHANGED <<analysisVars, sigmaVars, eventVars, candidateVars, isolationVars, mainVars, twiceVars, deriveVars, backgroundVars, validateVars,
                   finalVars, detectVars, metricVars>>

\* Lines 408-428: one iteration of the while loop.
MergeLoop ==
    /\ pc = "merge_loop"
    /\ i < Len(combined_events)
    /\ LET event_start == combined_events[i + 1].datetime
           end == event_end(event_start)
           w == window_events(combined_events, event_start, end)
       IN  /\ merged_events' = Append(merged_events, merged_event(combined_events, w))
           /\ window_log' = Append(window_log, w)
           /\ i' = NextIndex(combined_events, end)
    /\ UNCHANGED <<analysisVars, sigmaVars, eventVars, candidateVars, isolationVars, mainVars, twiceVars, deriveVars, backgroundVars, validateVars, detection_results, combined_events, merge_result, pc, finalVars,
                   detectVars, metricVars>>

\* Lines 430-432: the loop is over, the events are returned as a frame.
MergeReturn ==
    /\ pc = "merge_loop"
    /\ i >= Len(combined_events)
    /\ merge_result' = "frame"
    /\ pc' = "merged"
    /\ UNCHANGED <<analysisVars, sigmaVars, eventVars, candidateVars, isolationVars, mainVars, twiceVars, deriveVars, backgroundVars, validateVars, detection_results, combined_events, merged_events, window_log, i,
                   finalVars, detectVars, metricVars>>

\* A row of self.detection_results[instrument]: swepam rows carry the
\* confidence of 2 or 3 true signatures out of 3 when detected, the
\* single-signature instruments 1 out of 1.
DetectionRows ==
    [datetime : Times, instrument : {"swepam"}, cme_detected : {"True"}, confidence : {2, 3}]
    \cup [datetime : Times, instrument : {"swepam"}, cme_detected : {"False"}, confidence : {0}]
    \cup [datetime : Times, instrument : {"mag", "epam"}, cme_detected : {"True"}, confidence : {3}]

InstrumentRank(inst) == CASE inst = "swepam" -> 0 [] inst = "mag" -> 1 [] OTHER -> 2

\* The frames are in time order (preprocess_data sorts the index).
RowsInOrder(f) ==
    \A k \in 1..(Len(f) - 1) :
        \/ f[k].datetime < f[k + 1].datetime
        \/ /\ f[k].datetime = f[k + 1].datetime
           /\ InstrumentRank(f[k].instrument) <= InstrumentRank(f[k + 1].instrument)

FrameOf(f, inst) ==
    LET own == SelectSeq(f, LAMBDA r : r.instrument = inst)
    IN  [k \in 1..Len(own) |->
            [datetime |-> own[k].datetime,
             cme_detected |-> own[k].cme_detected,
             confidence |-> own[k].confidence]]

ValidateIdle ==
    /\ min_duration_hours = 2
    /\ min_instruments = 1
    /\ min_confidence = <<2, 10>>
    /\ valid_events = <<>>
    /\ validate_result = "pending"

BackgroundIdle ==
    /\ bg_raw = <<>>
    /\ param_data = <<>>
    /\ window_days = 30
    /\ chunk_size = 100000
    /\ chunks = <<>>
    /\ bg_stats = <<>>

DeriveIdle ==
    /\ signature_flags = <<>>

TwiceIdle ==
    /\ merge_calls = 0
    /\ first_result = <<>>
    /\ results_before = <<>>

MainIdle ==
    /\ L2_BLK_data = <<>>
    /\ final_output = <<>>
    /\ out_csv = <<>>
    /\ main_error = <<>>
    /\ df_arg = <<>>
    /\ fn_error = ""

IsolationIdle ==
    /\ data_files = <<>>
    /\ data = <<>>
    /\ error_log = <<>>
    /\ step_before = <<>>

CandidateIdle ==
    /\ swis_len = 0
    /\ swis_cells = <<>>
    /\ background = <<>>
    /\ candidates = <<>>

EventsIdle ==
    /\ events_df = <<>>
    /\ events_args = <<>>
    /\ events_out = <<>>
    /\ events_error = "none"

SigmaIdle ==
    /\ sigma_df = <<>>
    /\ background_stats = <<>>
    /\ optimal_thresholds = <<>>
    /\ sigma_todo = <<>>
    /\ sigma_detections = <<>>

AnalysisIdle ==
    /\ figure_saved = FALSE
    /\ report_written = FALSE
    /\ analysis_result = "pending"

MetricsIdle ==
    /\ detections = <<>>
    /\ synthetic_events = <<>>
    /\ tolerance_hours = 2
    /\ detection_times = {}
    /\ synthetic_times = {}
    /\ synth_todo = {}
    /\ det_todo = {}
    /\ true_positives = 0
    /\ false_negatives = 0
    /\ false_positives = 0
    /\ metrics = <<>>

DetectIdle ==
    /\ processed_data = <<>>
    /\ detect_todo = <<>>
    /\ all_detections = <<>>

MergeIdle ==
    /\ detection_results = <<>>
    /\ combined_events = <<>>
    /\ merged_events = <<>>
    /\ window_log = <<>>
    /\ i = 0
    /\ merge_result = "pending"

NoSignatures ==
    [enhancement_scores |-> <<>>, rapid_increases |-> <<>>,
     accelerations |-> <<>>, acceleration_changes |-> <<>>]

NoFlags == [alpha_flag |-> <<>>, speed_flag |-> <<>>, temp_flag |-> <<>>]

FinalIdle ==
    /\ proton_density = <<>>
    /\ proton_bulk_speed = <<>>
    /\ proton_thermal = <<>>
    /\ alpha_density = <<>>
    /\ score = <<>>
    /\ score_terms = <<>>
    /\ signatures = NoSignatures
    /\ threshold_flags = NoFlags

InitMerge ==
    /\ AnalysisIdle
    /\ SigmaIdle
    /\ EventsIdle
    /\ CandidateIdle
    /\ IsolationIdle
    /\ MainIdle
    /\ TwiceIdle
    /\ DeriveIdle
    /\ BackgroundIdle
    /\ ValidateIdle
    /\ MetricsIdle
    /\ FinalIdle
    /\ DetectIdle
    /\ \E n \in 0..MaxDet : \E f \in [1..n -> DetectionRows] :
          /\ RowsInOrder(f)
          /\ detection_results =
                 [inst \in {f[k].instrument : k \in 1..n} |-> FrameOf(f, inst)]
    /\ combined_events = <<>>
    /\ merged_events = <<>>
    /\ window_log = <<>>
    /\ i = 0
    /\ merge_result = "pending"
    /\ pc = "merge"

NextMerge == MergeStart \/ MergeLoop \/ MergeReturn

SpecMerge == InitMerge /\ [][NextMerge]_vars

\* The interpreter goes on with the call until it returns.
SpecMergeLive == InitMerge /\ [][NextMerge]_vars /\ WF_vars(NextMerge)

-----------------------------------------------------------------------------
(* final_processing.py: float values                                       *)
(*                                                                         *)
(* A float is an integer of the parameter's unit (densities in 0.001/cm3,  *)
(* speeds in km/s) or one of the values below.  FILL_VALUE stands for      *)
(* -1.0e31: it lies below every valid value, and a sum or difference that  *)
(* involves it keeps only its multiple of FILL_VALUE, as the float does.   *)

FILL_VALUE == -100000000
NaN == -2147483647
PosInf == 2000000000
NegInf == -2000000000

\* np.isfinite
IsFinite(x) == x \notin {NaN, PosInf, NegInf}

\* x > y and x < y on floats: false when either side is NaN.
Gt(x, y) == x # NaN /\ y # NaN /\ x > y
Lt(x, y) == x # NaN /\ y # NaN /\ x < y

\* The float nearest to an exact result z: a value of the size of
\* FILL_VALUE absorbs what is added to it.
RoundFloat(z) ==
    IF z > -10000000 /\ z < 10000000 THEN z
    ELSE ((z + 50000000) \div 100000000) * 100000000

\* x - y on floats.
FSub(x, y) ==
    IF x = NaN \/ y = NaN THEN NaN
    ELSE IF x = PosInf THEN (IF y = PosInf THEN NaN ELSE PosInf)
    ELSE IF x = NegInf THEN (IF y = NegInf THEN NaN ELSE NegInf)
    ELSE IF y = PosInf THEN NegInf
    ELSE IF y = NegInf THEN PosInf
    ELSE RoundFloat(x - y)

\* (arr > FILL_VALUE) & np.isfinite(arr)
Valid(x) == Gt(x, FILL_VALUE) /\ IsFinite(x)

\* np.clip(num / den, 0, 1) in thousandths, for den > 0.
Clip(num, den) ==
    IF num <= 0 THEN 0
    ELSE IF num >= den THEN 1000
    ELSE (1000 * num) \div den

k_B == 1381
m_p == 1673

\* 100 * (v / 100) ** 0.67 to the nearest integer, for the speeds above 0
\* that the model uses.
Pow067(v) ==
    CASE v = 300 -> 209 [] v = 380 -> 245 [] v = 400 -> 253 [] v = 450 -> 274
      [] v = 470 -> 282 [] v = 480 -> 286 [] v = 500 -> 294 [] v = 580 -> 325
      [] v = 600 -> 332 [] v = 700 -> 368 [] v = 800 -> 403

\* T_exp = 3.0 * (v / 100.0) ** 0.67 * 1e4, in units of 100 K.
T_exp(v) == 3 * Pow067(v)

\* T_obs = ((t * 1000.0) ** 2) * m_p / (2.0 * k_B), in units of 100 K, as the
\* ratio <<numerator, denominator>> (k_B in 1e-26, m_p in 1e-30).
T_obs(t) == <<t * t * m_p, 2 * k_B>>

-----------------------------------------------------------------------------
(* final_processing.calculate_cme_score (contributions in thousandths) *)

\* Line 92.
valid_proton(pd, v) == Valid(pd) /\ Valid(v)
\* Line 93.
valid_alpha(a) == Valid(a)
\* Line 94.
valid_thermal(t) == Valid(t)

\* A ratio mask that forgets the sign of the denominator.
mask_alpha_any_denominator(pd, v, a) == valid_proton(pd, v) /\ valid_alpha(a)

\* Lines 99-100: where alpha_density / proton_density is evaluated.
mask_alpha(pd, v, a) == valid_proton(pd, v) /\ valid_alpha(a) /\ Gt(pd, 0)

\* Lines 101-102: alpha_ratio as <<numerator, denominator>>, 0 off the mask.
alpha_ratio(pd, v, a) == IF mask_alpha(pd, v, a) THEN <<a, pd>> ELSE <<0, 1>>

\* A scaling that is not clipped from above.
alpha_scaled_unclipped(pd, v, a) ==
    LET r == alpha_ratio(pd, v, a)
    IN  IF 1000 * r[1] - 3 * r[2] <= 0 THEN 0
        ELSE (1000 * (1000 * r[1] - 3 * r[2])) \div (8 * r[2])

\* Line 103: np.clip((alpha_ratio - 0.003) / 0.008, 0, 1).
alpha_scaled(pd, v, a) ==
    LET r == alpha_ratio(pd, v, a)
    IN  Clip(1000 * r[1] - 3 * r[2], 8 * r[2])

\* Line 104: 0.4 * alpha_scaled.
alpha_term(pd, v, a) == (2 * alpha_scaled(pd, v, a)) \div 5

\* Line 107.
mask_speed(pd, v) == valid_proton(pd, v)

\* Lines 108-109.
speed_scaled(pd, v) == IF mask_speed(pd, v) THEN Clip(v - 380, 200) ELSE 0

\* Line 110: 0.4 * speed_scaled.
speed_term(pd, v) == (2 * speed_scaled(pd, v)) \div 5

\* Line 113.
mask_temp(pd, v, t) == valid_proton(pd, v) /\ valid_thermal(t) /\ Gt(v, 0)

\* Lines 118-125: temp_contrib, with T_ratio = T_obs / T_exp taken where
\* T_exp > 0 and used where it is below 0.5.
temp_contrib(v, t) ==
    LET num == T_obs(t)[1]
        den == T_obs(t)[2] * T_exp(v)
        cond == T_exp(v) > 0 /\ 2 * num < den
    IN  IF cond
        THEN LET T_ratio == (1000 * num) \div den
             IN  IF 1000 - 2 * T_ratio > 0 THEN 1000 - 2 * T_ratio ELSE 0
        ELSE 0

\* Line 126: 0.1 * temp_contrib on mask_temp.
temp_term(pd, v, t) == IF mask_temp(pd, v, t) THEN temp_contrib(v, t) \div 10 ELSE 0

AsInt(b) == IF b THEN 1 ELSE 0

\* Line 129.
valid_count(pd, v, t, a) ==
    AsInt(valid_proton(pd, v)) + AsInt(valid_alpha(a)) + AsInt(valid_thermal(t))

\* Line 130: 0.1 * (valid_count / 3.0).
quality_term(pd, v, t, a) == (100 * valid_count(pd, v, t, a)) \div 3

\* What lines 96-130 add to the score of one element.
ScoreTerms(pd, v, t, a) ==
    [alpha |-> alpha_term(pd, v, a),
     speed |-> speed_term(pd, v),
     temp |-> temp_term(pd, v, t),
     quality |-> quality_term(pd, v, t, a),
     divided |-> mask_alpha(pd, v, a)]

\* calculate_cme_score, lines 78-134.
CalculateCmeScore ==
    /\ pc = "score"
    /\ score_terms' =
           [k \in 1..Len(proton_density) |->
               ScoreTerms(proton_density[k], proton_bulk_speed[k],
                          proton_thermal[k], alpha_density[k])]
    /\ score' =
           [k \in 1..Len(proton_density) |->
               score_terms'[k].alpha + score_terms'[k].speed
                   + score_terms'[k].temp + score_terms'[k].quality]
    /\ pc' = "scored"
    /\ UNCHANGED <<analysisVars, sigmaVars, eventVars, candidateVars, isolationVars, mainVars, twiceVars, deriveVars, backgroundVars, validateVars, mergeVars, detectVars, metricVars, inputVars, signatures, threshold_flags>>

-----------------------------------------------------------------------------
(* final_processing.detect_cme_speed_signatures *)

\* Lines 152-154.
enhancement_scores(ps) ==
    [k \in 1..Len(ps) |-> IF Valid(ps[k]) THEN Clip(ps[k] - 380, 200) ELSE 0]

\* First differences against a speed of 0 before the first sample.
speed_changes_from_zero(ps) ==
    [k \in 1..Len(ps) |-> IF k = 1 THEN ps[1] ELSE FSub(ps[k], ps[k - 1])]

\* Lines 157-159.
speed_changes(ps) ==
    [k \in 1..Len(ps) |-> IF k = 1 THEN 0 ELSE FSub(ps[k], ps[k - 1])]

\* Line 161.
rapid_increases(ps) ==
    LET sc == speed_changes(ps)
    IN  [k \in 1..Len(ps) |-> Gt(sc[k], 5) /\ IsFinite(sc[k])]

\* Lines 164-166.
acceleration_changes(ps) ==
    LET sc == speed_changes(ps)
    IN  [k \in 1..Len(ps) |-> IF k = 1 THEN 0 ELSE FSub(sc[k], sc[k - 1])]

\* Line 168.
accelerations(ps) ==
    LET ac == acceleration_changes(ps)
    IN  [k \in 1..Len(ps) |-> Gt(ac[k], 2) /\ IsFinite(ac[k])]

\* detect_cme_speed_signatures, lines 137-170 (main calls it on the
\* proton_bulk_speed column).
DetectCmeSpeedSignatures ==
    /\ pc = "signatures"
    /\ signatures' =
           IF Len(proton_bulk_speed) = 0
           THEN NoSignatures
           ELSE [enhancement_scores |-> enhancement_scores(proton_bulk_speed),
                 rapid_increases |-> rapid_increases(proton_bulk_speed),
                 accelerations |-> accelerations(proton_bulk_speed),
                 acceleration_changes |-> acceleration_changes(proton_bulk_speed)]
    /\ pc' = "thresholds"
    /\ UNCHANGED <<analysisVars, sigmaVars, eventVars, candidateVars, isolationVars, mainVars, twiceVars, deriveVars, backgroundVars, validateVars, mergeVars, detectVars, metricVars, inputVars, score, score_terms, threshold_flags>>

-----------------------------------------------------------------------------
(* final_processing.detect_cme_thresholds (inputs of one length, as the    *)
(* columns of one frame in main)                                           *)

\* Lines 208-209: denom & valid_a & valid_p, with denom = (p != 0).
valid_ratio(a, p) == p # 0 /\ Valid(a) /\ Valid(p)

\* Lines 210-212: a / p > 0.08 on valid_ratio.
alpha_flag(a, p) ==
    /\ valid_ratio(a, p)
    /\ IF p > 0 THEN 100 * a > 8 * p ELSE 100 * a < 8 * p

\* Lines 215-216.
speed_flag(v) == Valid(v) /\ Gt(v, 450)

\* Lines 219-229: T_obs < 0.5 * T_exp where v and t are valid and v > 0.
temp_flag(v, t) ==
    /\ Valid(v) /\ Gt(v, 0) /\ Valid(t)
    /\ T_exp(v) > 0
    /\ 2 * T_obs(t)[1] < T_obs(t)[2] * T_exp(v)

\* detect_cme_thresholds, lines 173-231.
DetectCmeThresholds ==
    /\ pc = "thresholds"
    /\ threshold_flags' =
           [alpha_flag |-> [k \in 1..Len(alpha_density) |->
                               alpha_flag(alpha_density[k], proton_density[k])],
            speed_flag |-> [k \in 1..Len(alpha_density) |->
                               speed_flag(proton_bulk_speed[k])],
            temp_flag |-> [k \in 1..Len(alpha_density) |->
                              temp_flag(proton_bulk_speed[k], proton_thermal[k])]]
    /\ pc' = "flagged"
    /\ UNCHANGED <<analysisVars, sigmaVars, eventVars, candidateVars, isolationVars, mainVars, twiceVars, deriveVars, backgroundVars, validateVars, mergeVars, detectVars, metricVars, inputVars, score, score_terms, signatures>>

-----------------------------------------------------------------------------
(* The inputs of final_processing *)

MaxLen == 1
FlagLen == 2

ScoreDensities == {FILL_VALUE, NaN, -5000, 0, 5000}
ScoreSpeeds == {FILL_VALUE, PosInf, -100, 480, 600}
ScoreThermals == {FILL_VALUE, 0, 20, 30}
ScoreAlphas == {FILL_VALUE, -500, 35, 500}

FlagDensities == {FILL_VALUE, -5000, 0, 5000}
FlagSpeeds == {FILL_VALUE, NaN, 480, 600}
FlagThermals == {FILL_VALUE, 20, 30}
FlagAlphas == {FILL_VALUE, -1000, 500}

InitScore ==
    /\ AnalysisIdle
    /\ SigmaIdle
    /\ EventsIdle
    /\ CandidateIdle
    /\ IsolationIdle
    /\ MainIdle
    /\ TwiceIdle
    /\ DeriveIdle
    /\ BackgroundIdle
    /\ ValidateIdle
    /\ MetricsIdle
    /\ MergeIdle
    /\ DetectIdle
    /\ \E n \in 0..MaxLen :
          /\ proton_density \in [1..n -> ScoreDensities]
          /\ proton_bulk_speed \in [1..n -> ScoreSpeeds]
          /\ proton_thermal \in [1..n -> ScoreThermals]
          /\ alpha_density \in [1..n -> ScoreAlphas]
    /\ score = <<>>
    /\ score_terms = <<>>
    /\ signatures = NoSignatures
    /\ threshold_flags = NoFlags
    /\ pc = "score"

NextScore == CalculateCmeScore

SpecScore == InitScore /\ [][NextScore]_vars

InitFlags ==
    /\ AnalysisIdle
    /\ SigmaIdle
    /\ EventsIdle
    /\ CandidateIdle
    /\ IsolationIdle
    /\ MainIdle
    /\ TwiceIdle
    /\ DeriveIdle
    /\ BackgroundIdle
    /\ ValidateIdle
    /\ MetricsIdle
    /\ MergeIdle
    /\ DetectIdle
    /\ \E n \in 0..FlagLen :
          /\ proton_density \in [1..n -> FlagDensities]
          /\ proton_bulk_speed \in [1..n -> FlagSpeeds]
          /\ proton_thermal \in [1..n -> FlagThermals]
          /\ alpha_density \in [1..n -> FlagAlphas]
    /\ score = <<>>
    /\ score_terms = <<>>
    /\ signatures = NoSignatures
    /\ threshold_flags = NoFlags
    /\ pc = "signatures"

NextFlags == DetectCmeSpeedSignatures \/ DetectCmeThresholds

SpecFlags == InitFlags /\ [][NextFlags]_vars

-----------------------------------------------------------------------------
(* pandas: column assignment aligns on the index                           *)
(*                                                                         *)
(* A frame after reset_index has the RangeIndex: its labels are positions. *)
(* After set_index('datetime') its labels are timestamps.  A Series is a   *)
(* sequence of [label, value].  A boolean cell is "True", "False" or,      *)
(* where a reindex found no value, "NaN".                                  *)

RangeLabel(k) == <<"range", k>>
DatetimeLabel(t) == <<"datetime", t>>

\* RangeIndex(n): the labels 0 .. n-1.
RangeIndex(n) == [k \in 1..n |-> RangeLabel(k - 1)]

Bool(b) == IF b THEN "True" ELSE "False"

SeriesIndex(series) == [k \in 1..Len(series) |-> series[k].label]
SeriesValues(series) == [k \in 1..Len(series) |-> series[k].value]

IsUnique(labels) ==
    \A a, b \in 1..Len(labels) : a # b => labels[a] # labels[b]

\* frame[col] = series: the values as they are when the two indexes are
\* equal, else series.reindex(frame.index), which raises on duplicate
\* labels and puts NaN at every label the series does not have.
ReindexForSetitem(series, index) ==
    IF SeriesIndex(series) = index
    THEN [raised |-> FALSE, values |-> SeriesValues(series)]
    ELSE IF ~IsUnique(SeriesIndex(series))
    THEN [raised |-> TRUE, values |-> <<>>]
    ELSE [raised |-> FALSE,
          values |->
              [k \in 1..Len(index) |->
                  LET hits == {j \in 1..Len(series) : series[j].label = index[k]}
                  IN  IF hits = {} THEN "NaN"
                      ELSE series[CHOOSE j \in hits : TRUE].value]]

\* column.astype(int) raises on a NaN cell.
AstypeIntRaises(column) == \E k \in 1..Len(column) : column[k] = "NaN"

CellInt(c) == IF c = "True" THEN 1 ELSE 0

-----------------------------------------------------------------------------
(* CMEDetectionSystem: the detect_* functions on a frame indexed by        *)
(* datetime (df is the sequence of the rows)                               *)

std_window == 1440
std_min_periods == 100

\* The rows of the rolling window '1440min' that ends at row k and hold a
\* value (line 291).
StdWindow(df, k) ==
    {j \in 1..k :
        /\ df[j].datetime > df[k].datetime - std_window
        /\ df[j].speed_enhancement # NaN}

\* The sum over the rows of S among lo..hi, by halves of the range.
RECURSIVE SumOverRange(_, _, _, _, _)
SumOverRange(df, S, lo, hi, square) ==
    IF lo > hi THEN 0
    ELSE IF lo = hi
    THEN IF lo \in S
         THEN (IF square THEN df[lo].speed_enhancement * df[lo].speed_enhancement
               ELSE df[lo].speed_enhancement)
         ELSE 0
    ELSE SumOverRange(df, S, lo, (lo + hi) \div 2, square)
         + SumOverRange(df, S, (lo + hi) \div 2 + 1, hi, square)

SumOver(df, S, square) == SumOverRange(df, S, 1, Len(df), square)

\* speed_enhancement > threshold_factor * background_std at row k, with
\* threshold_factor = 1.5: for x > 0, x > 1.5 * std is 4 x^2 > 9 var, and
\* var is (n * sum(v^2) - sum(v)^2) / (n * (n - 1)); for integers,
\* 4 x^2 > 9 var is 4 x^2 > floor(9 var).  The std of fewer than min_periods
\* values is NaN and the comparison false.
SpeedEnhanced(df, k) ==
    LET w == StdWindow(df, k)
        n == Cardinality(w)
        x == df[k].speed_enhancement
    IN  /\ n >= std_min_periods
        /\ x # NaN
        /\ x > 0
        /\ 4 * x * x
               > (9 * (n * SumOver(df, w, TRUE) - SumOver(df, w, FALSE) * SumOver(df, w, FALSE)))
                     \div (n * (n - 1))

\* detect_speed_enhancements, lines 286-293.
detect_speed_enhancements(df) ==
    [k \in 1..Len(df) |->
        [label |-> DatetimeLabel(df[k].datetime), value |-> Bool(SpeedEnhanced(df, k))]]

\* detect_density_enhancements, lines 295-300: density_enhancement > 1.2
\* (the ratio in hundredths).
detect_density_enhancements(df) ==
    [k \in 1..Len(df) |->
        [label |-> DatetimeLabel(df[k].datetime),
         value |-> Bool(Gt(df[k].density_enhancement, 120))]]

\* detect_temperature_depressions, lines 302-307: temp_depression > 1.2.
detect_temperature_depressions(df) ==
    [k \in 1..Len(df) |->
        [label |-> DatetimeLabel(df[k].datetime),
         value |-> Bool(Gt(df[k].temp_depression, 120))]]

\* detect_particle_flux_enhancements, lines 309-320: any of the Proton
\* enhancement columns above 2.0 (hundredths); all False without one.
detect_particle_flux_enhancements(df) ==
    [k \in 1..Len(df) |->
        [label |-> DatetimeLabel(df[k].datetime),
         value |-> Bool(\E c \in 1..Len(df[k].proton_enhancement) :
                           Gt(df[k].proton_enhancement[c], 200))]]

\* detect_magnetic_field_rotations, lines 322-328: field_rotation * 180 / pi
\* > 20, with field_rotation in thousandths and pi as 355/113.
detect_magnetic_field_rotations(df) ==
    [k \in 1..Len(df) |->
        [label |-> DatetimeLabel(df[k].datetime),
         value |-> Bool(/\ df[k].field_rotation # NaN
                        /\ df[k].field_rotation * 180 * 113 > 20 * 355 * 1000)]]

-----------------------------------------------------------------------------
(* The try/except around the handling of one instrument                    *)

\* A handler for ValueError alone.
except_only_ValueError(exc) == exc = "ValueError"

\* except Exception (lines 161, 283, 377): the exceptions that the handling
\* of an instrument raises are all subclasses of Exception.
except_Exception(exc) == exc \in {"FileNotFoundError", "ValueError", "KeyError"}

\* The order of file_mapping.items() (lines 78-83), which is the order of
\* the items of self.data and self.processed_data too.
file_mapping == <<"swepam", "mag", "epam", "sis">>

\* A loop over the instruments of order with the try/except around its
\* body: out[x] tells whether the body skips instrument x (continue), which
\* exception it raises ("" for none) and the entry it stores otherwise.
\* The loop ends at the first exception that the handler does not catch.
TryEach(order, out, map, log) ==
    LET escaped == {k \in 1..Len(order) :
                       /\ ~out[order[k]].skipped
                       /\ out[order[k]].raised # ""
                       /\ ~except_Exception(out[order[k]].raised)}
        stop == IF escaped = {} THEN Len(order) + 1
                ELSE CHOOSE k \in escaped : \A j \in escaped : k <= j
        done == {order[k] : k \in 1..(stop - 1)}
        stored == {x \in done : ~out[x].skipped /\ out[x].raised = ""}
        logged(x) == x \in done /\ ~out[x].skipped /\ out[x].raised # ""
    IN  [map |-> [x \in DOMAIN map \cup stored |->
                     IF x \in stored THEN out[x].frame ELSE map[x]],
         log |-> log \o SelectSeq(order, logged),
         escaped |-> escaped # {}]

-----------------------------------------------------------------------------
(* CMEDetectionSystem.composite_cme_detection *)

\* swepam_score >= 2 (line 357).
SwepamRule(swepam_score) == swepam_score >= 2

\* detections[signature_cols].sum(axis=1) / max(1, len(signature_cols)) at row
\* k, in thirds; the sum skips the NaN cells (line 371).
Confidence(columns, k) ==
    (3 * SumSeq([c \in 1..Len(columns) |-> CellInt(columns[c][k])])) \div Len(columns)

\* Lines 342-374 for one instrument: whether an exception is raised, and the
\* rows of the detections frame (datetime, cme_detected, confidence).
Detections(instrument, frame) ==
    LET index == RangeIndex(Len(frame))
        sigs == IF instrument = "swepam"
                THEN <<ReindexForSetitem(detect_speed_enhancements(frame), index),
                       ReindexForSetitem(detect_density_enhancements(frame), index),
                       ReindexForSetitem(detect_temperature_depressions(frame), index)>>
                ELSE IF instrument = "mag"
                THEN <<ReindexForSetitem(detect_magnetic_field_rotations(frame), index)>>
                ELSE <<ReindexForSetitem(detect_particle_flux_enhancements(frame), index)>>
        columns == [c \in 1..Len(sigs) |-> sigs[c].values]
        raised ==
            \/ \E c \in 1..Len(sigs) : sigs[c].raised
            \/ /\ instrument = "swepam"
               /\ \E c \in 1..Len(sigs) : AstypeIntRaises(columns[c])
        cme_detected(k) ==
            IF instrument = "swepam"
            THEN Bool(SwepamRule(SumSeq([c \in 1..3 |-> CellInt(columns[c][k])])))
            ELSE columns[1][k]
    IN  [raised |-> raised,
         rows |-> IF raised THEN <<>>
                  ELSE [k \in 1..Len(frame) |->
                           [datetime |-> frame[k].datetime,
                            cme_detected |-> cme_detected(k),
                            confidence |-> Confidence(columns, k)]]]

\* Lines 330-336: the loop over self.processed_data.items() starts.
CompositeStart ==
    /\ pc = "detect"
    /\ all_detections' = <<>>
    /\ detect_todo' = SelectSeq(<<"swepam", "mag", "epam", "sis">>,
                                LAMBDA x : x \in DOMAIN processed_data)
    /\ pc' = "detect_loop"
    /\ UNCHANGED <<analysisVars, sigmaVars, eventVars, candidateVars, isolationVars, mainVars, twiceVars, deriveVars, backgroundVars, validateVars, mergeVars, finalVars, metricVars, processed_data>>

\* Lines 336-378: the loop body for the next instrument; an empty frame is
\* skipped and an exception (a ValueError, of reindex or of astype) is logged,
\* both leaving the results as they are.
DetectInstrument ==
    /\ pc = "detect_loop"
    /\ detect_todo # <<>>
    /\ LET instrument == Head(detect_todo)
           frame == processed_data[instrument]
           out == Detections(instrument, frame)
       IN  IF Len(frame) = 0
           THEN /\ detect_todo' = Tail(detect_todo)
                /\ UNCHANGED <<detection_results, all_detections, error_log, pc>>
           ELSE IF out.raised
           THEN IF except_Exception("ValueError")
                THEN /\ error_log' = Append(error_log, instrument)
                     /\ detect_todo' = Tail(detect_todo)
                     /\ UNCHANGED <<detection_results, all_detections, pc>>
                ELSE /\ pc' = "detect_raised"
                     /\ UNCHANGED <<detection_results, all_detections, error_log,
                                    detect_todo>>
           ELSE /\ all_detections' = Append(all_detections, instrument)
                /\ detection_results' =
                       [x \in DOMAIN detection_results \cup {instrument} |->
                           IF x = instrument THEN out.rows ELSE detection_results[x]]
                /\ detect_todo' = Tail(detect_todo)
                /\ UNCHANGED <<error_log, pc>>
    /\ UNCHANGED <<analysisVars, sigmaVars, eventVars, candidateVars, mainVars, twiceVars, deriveVars, backgroundVars, validateVars,
                   combined_events, merged_events, window_log, i, merge_result,
                   finalVars, metricVars, processed_data, data_files, data, step_before>>

\* Line 380: return all_detections.
CompositeReturn ==
    /\ pc = "detect_loop"
    /\ detect_todo = <<>>
    /\ pc' = "detected"
    /\ UNCHANGED <<analysisVars, sigmaVars, eventVars, candidateVars, isolationVars, mainVars, twiceVars, deriveVars, backgroundVars, validateVars, mergeVars, finalVars, detectVars, metricVars>>

-----------------------------------------------------------------------------
(* The frames of self.processed_data after derive_features *)

MaxRows == 2

\* A quiet hour and forty minutes of swepam rows, one a minute, before time 0.
QuietRows ==
    [k \in 1..std_min_periods |->
        [datetime |-> k - 1 - std_min_periods, speed_enhancement |-> 0,
         density_enhancement |-> 100, temp_depression |-> 100]]

SwepamCells ==
    [speed_enhancement : {NaN, 0, 50}, density_enhancement : {NaN, 110, 130},
     temp_depression : {110, 130}]

MagCells == [field_rotation : {NaN, 340, 350}]

ParticleCells == [proton_enhancement : {<<>>, <<150>>, <<250>>, <<150, 250>>}]

\* Row k of a frame is at minute 30 * (k - 1): load_data resamples, so the
\* timestamps of a frame are distinct and increasing.
WithDatetime(cells, k) ==
    [x \in DOMAIN cells \cup {"datetime"} |->
        IF x = "datetime" THEN 30 * (k - 1) ELSE cells[x]]

InitDetect ==
    /\ AnalysisIdle
    /\ SigmaIdle
    /\ EventsIdle
    /\ CandidateIdle
    /\ IsolationIdle
    /\ MainIdle
    /\ TwiceIdle
    /\ DeriveIdle
    /\ BackgroundIdle
    /\ ValidateIdle
    /\ MetricsIdle
    /\ FinalIdle
    /\ detection_results = <<>>
    /\ combined_events = <<>>
    /\ merged_events = <<>>
    /\ window_log = <<>>
    /\ i = 0
    /\ merge_result = "pending"
    /\ \E n \in [Instruments -> 0..MaxRows] :
          /\ n["swepam"] + n["mag"] + n["epam"] + n["sis"] <= MaxRows
          /\ \E quiet \in BOOLEAN :
             \E sw \in [1..n["swepam"] -> SwepamCells] :
             \E mg \in [1..n["mag"] -> MagCells] :
             \E ep \in [1..n["epam"] -> ParticleCells] :
             \E si \in [1..n["sis"] -> ParticleCells] :
                 /\ quiet => n["swepam"] > 0
                 /\ processed_data =
                        [x \in Instruments |->
                            CASE x = "swepam" ->
                                     (IF quiet THEN QuietRows ELSE <<>>)
                                         \o [k \in 1..n[x] |-> WithDatetime(sw[k], k)]
                              [] x = "mag" -> [k \in 1..n[x] |-> WithDatetime(mg[k], k)]
                              [] x = "epam" -> [k \in 1..n[x] |-> WithDatetime(ep[k], k)]
                              [] OTHER -> [k \in 1..n[x] |-> WithDatetime(si[k], k)]]
    /\ detect_todo = <<>>
    /\ all_detections = <<>>
    /\ pc = "detect"

NextDetect == CompositeStart \/ DetectInstrument \/ CompositeReturn

SpecDetect == InitDetect /\ [][NextDetect]_vars

-----------------------------------------------------------------------------
(* ThresholdOptimizer._calculate_validation_metrics                        *)
(*                                                                         *)
(* Times are minutes of a day.  A ratio is <<numerator, denominator>>.     *)

\* timedelta(hours=tolerance_hours), line 313.
tolerance == tolerance_hours * 60

Abs(x) == IF x < 0 THEN -x ELSE x

\* A match that forgets the instrument.
MatchesAnyInstrument(det, synth, tol) == Abs(det[1] - synth[1]) <= tol

\* The condition of lines 324 and 334: the same instrument, and the two
\* times no further apart than the tolerance.
Matches(det, synth, tol) ==
    /\ det[2] = synth[2]
    /\ Abs(det[1] - synth[1]) <= tol

\* Lines 319-320: the sets of the (time, instrument) pairs of the rows.
DetectionTimes(rows) ==
    {<<rows[k].detection_time, rows[k].instrument>> : k \in 1..Len(rows)}

SyntheticTimes(rows) ==
    {<<rows[k].start_time, rows[k].instrument>> : k \in 1..Len(rows)}

\* Lines 311-320: the counters start at zero and the two sets are built.
MetricsStart ==
    /\ pc = "metrics"
    /\ true_positives' = 0
    /\ false_negatives' = 0
    /\ false_positives' = 0
    /\ detection_times' = DetectionTimes(detections)
    /\ synthetic_times' = SyntheticTimes(synthetic_events)
    /\ synth_todo' = SyntheticTimes(synthetic_events)
    /\ det_todo' = DetectionTimes(detections)
    /\ pc' = "metrics_loops"
    /\ UNCHANGED <<analysisVars, sigmaVars, eventVars, candidateVars, isolationVars, mainVars, twiceVars, deriveVars, backgroundVars, validateVars, mergeVars, finalVars, detectVars, detections, synthetic_events,
                   tolerance_hours, metrics>>

\* Lines 322-330: one iteration of the loop over synthetic_times, in the
\* order the set happens to have; the inner loop stops at the first match.
SyntheticStep ==
    /\ pc = "metrics_loops"
    /\ \E synth \in synth_todo :
          LET matched == \E det \in detection_times : Matches(det, synth, tolerance)
          IN  /\ true_positives' = true_positives + (IF matched THEN 1 ELSE 0)
              /\ false_negatives' = false_negatives + (IF matched THEN 0 ELSE 1)
              /\ synth_todo' = synth_todo \ {synth}
    /\ UNCHANGED <<analysisVars, sigmaVars, eventVars, candidateVars, isolationVars, mainVars, twiceVars, deriveVars, backgroundVars, validateVars, mergeVars, finalVars, detectVars, detections, synthetic_events,
                   tolerance_hours, detection_times, synthetic_times, det_todo,
                   false_positives, metrics, pc>>

\* Lines 332-339: one iteration of the loop over detection_times, after the
\* first loop has ended.
DetectionStep ==
    /\ pc = "metrics_loops"
    /\ synth_todo = {}
    /\ \E det \in det_todo :
          LET matched == \E synth \in synthetic_times : Matches(det, synth, tolerance)
          IN  /\ false_positives' = false_positives + (IF matched THEN 0 ELSE 1)
              /\ det_todo' = det_todo \ {det}
    /\ UNCHANGED <<analysisVars, sigmaVars, eventVars, candidateVars, isolationVars, mainVars, twiceVars, deriveVars, backgroundVars, validateVars, mergeVars, finalVars, detectVars, detections, synthetic_events,
                   tolerance_hours, detection_times, synthetic_times, synth_todo,
                   true_positives, false_negatives, metrics, pc>>

\* A precision that divides whatever the denominator is; a ratio with the
\* denominator 0 stands for the ZeroDivisionError.
precision_unguarded(tp, fp) == <<tp, tp + fp>>

\* Line 341.
precision(tp, fp) == IF tp + fp > 0 THEN <<tp, tp + fp>> ELSE <<0, 1>>

\* Line 342.
recall(tp, fn) == IF tp + fn > 0 THEN <<tp, tp + fn>> ELSE <<0, 1>>

\* An F1 that divides whatever precision + recall is.
f1_score_unguarded(p, r) == <<2 * p[1] * r[1], p[1] * r[2] + r[1] * p[2]>>

\* Line 343: 2 * (p * r) / (p + r) for p = a/b and r = c/d is
\* 2ac / (ad + cb); 0 when p + r is 0.
f1_score(p, r) ==
    IF p[1] * r[2] + r[1] * p[2] > 0
    THEN <<2 * p[1] * r[1], p[1] * r[2] + r[1] * p[2]>>
    ELSE <<0, 1>>

\* Lines 341-352: the ratios and the returned dict.
MetricsReturn ==
    /\ pc = "metrics_loops"
    /\ synth_todo = {}
    /\ det_todo = {}
    /\ metrics' =
           [true_positives |-> true_positives,
            false_positives |-> false_positives,
            false_negatives |-> false_negatives,
            precision |-> precision(true_positives, false_positives),
            recall |-> recall(true_positives, false_negatives),
            f1_score |-> f1_score(precision(true_positives, false_positives),
                                  recall(true_positives, false_negatives))]
    /\ pc' = "metrics_returned"
    /\ UNCHANGED <<analysisVars, sigmaVars, eventVars, candidateVars, isolationVars, mainVars, twiceVars, deriveVars, backgroundVars, validateVars, mergeVars, finalVars, detectVars, detections, synthetic_events,
                   tolerance_hours, detection_times, synthetic_times, synth_todo,
                   det_todo, true_positives, false_negatives, false_positives>>

\* The frames the caller hands over: up to MaxEvents rows each.
MaxEvents == 2

\* 10:00, 10:30 and 12:00.
EventTimes == {600, 630, 720}

EventInstruments == {"swepam", "mag"}

RowsUpTo(S, n) == UNION {[1..m -> S] : m \in 0..n}

InitMetrics ==
    /\ AnalysisIdle
    /\ SigmaIdle
    /\ EventsIdle
    /\ CandidateIdle
    /\ IsolationIdle
    /\ MainIdle
    /\ TwiceIdle
    /\ DeriveIdle
    /\ BackgroundIdle
    /\ ValidateIdle
    /\ MergeIdle
    /\ FinalIdle
    /\ DetectIdle
    /\ detections \in
           RowsUpTo([detection_time : EventTimes, instrument : EventInstruments], MaxEvents)
    /\ synthetic_events \in
           RowsUpTo([start_time : EventTimes, instrument : EventInstruments], MaxEvents)
    /\ tolerance_hours \in {1, 2}
    /\ detection_times = {}
    /\ synthetic_times = {}
    /\ synth_todo = {}
    /\ det_todo = {}
    /\ true_positives = 0
    /\ false_negatives = 0
    /\ false_positives = 0
    /\ metrics = <<>>
    /\ pc = "metrics"

NextMetrics == MetricsStart \/ SyntheticStep \/ DetectionStep \/ MetricsReturn

SpecMetrics == InitMetrics /\ [][NextMetrics]_vars

-----------------------------------------------------------------------------
(* CMEDetectionSystem.validate_cme_events                                  *)
(*                                                                         *)
(* The argument is the pair (merge_result, merged_events): None, or a      *)
(* frame of merged events.                                                 *)

\* A filter that keeps only the events above the minimum confidence.
passes_filter_strict(row, min_d, min_i, min_c) ==
    /\ RatLeq(<<min_d, 1>>, row.duration_hours)
    /\ row.num_instruments >= min_i
    /\ RatLt(min_c, row.avg_confidence)

\* The mask of lines 442-446.
passes_filter(row, min_d, min_i, min_c) ==
    /\ RatLeq(<<min_d, 1>>, row.duration_hours)
    /\ row.num_instruments >= min_i
    /\ RatLeq(min_c, row.avg_confidence)

\* A classification whose thresholds include their bound.
classify_event_inclusive(row) ==
    IF row.num_instruments >= 3 /\ RatLeq(<<6, 10>>, row.avg_confidence)
    THEN "High Confidence"
    ELSE IF row.num_instruments >= 2 /\ RatLeq(<<4, 10>>, row.avg_confidence)
    THEN "Medium Confidence"
    ELSE "Low Confidence"

\* classify_event, lines 448-454.
classify_event(row) ==
    IF row.num_instruments >= 3 /\ RatLt(<<6, 10>>, row.avg_confidence)
    THEN "High Confidence"
    ELSE IF row.num_instruments >= 2 /\ RatLt(<<4, 10>>, row.avg_confidence)
    THEN "Medium Confidence"
    ELSE "Low Confidence"

\* Line 456: the row with the classification column added.
WithClassification(row) ==
    [x \in DOMAIN row \cup {"classification"} |->
        IF x = "classification" THEN classify_event(row) ELSE row[x]]

\* Lines 434-458.
ValidateCmeEvents ==
    /\ pc = "validate"
    /\ IF merge_result = "None" \/ Len(merged_events) = 0
       THEN /\ validate_result' = "empty"
            /\ valid_events' = <<>>
       ELSE LET kept == SelectSeq(merged_events,
                            LAMBDA row : passes_filter(row, min_duration_hours,
                                                       min_instruments, min_confidence))
            IN  /\ valid_events' = [k \in 1..Len(kept) |-> WithClassification(kept[k])]
                /\ validate_result' = "frame"
    /\ pc' = "validated"
    /\ UNCHANGED <<analysisVars, sigmaVars, eventVars, candidateVars, isolationVars, mainVars, twiceVars, deriveVars, backgroundVars, mergeVars, finalVars, detectVars, metricVars, min_duration_hours,
                   min_instruments, min_confidence>>

\* The candidate events handed to validate_cme_events: up to MaxCandidates rows.
MaxCandidates == 2

\* The columns of a candidate that the function reads; event k starts at hour
\* 3 * k.
CandidateCells ==
    [duration_hours : {<<90, 60>>, <<120, 60>>},
     num_instruments : 1..3,
     avg_confidence : {<<1, 10>>, <<4, 10>>, <<5, 10>>, <<6, 10>>, <<7, 10>>}]

Candidate(cells, k) ==
    [start_time |-> 180 * k,
     end_time |-> 180 * k + cells.duration_hours[1],
     duration_hours |-> cells.duration_hours,
     instruments |-> {<<"swepam", "mag", "epam">>[n] : n \in 1..cells.num_instruments},
     num_instruments |-> cells.num_instruments,
     avg_confidence |-> cells.avg_confidence,
     max_confidence |-> cells.avg_confidence]

InitValidate ==
    /\ AnalysisIdle
    /\ SigmaIdle
    /\ EventsIdle
    /\ CandidateIdle
    /\ IsolationIdle
    /\ MainIdle
    /\ TwiceIdle
    /\ DeriveIdle
    /\ BackgroundIdle
    /\ MetricsIdle
    /\ FinalIdle
    /\ DetectIdle
    /\ detection_results = <<>>
    /\ combined_events = <<>>
    /\ window_log = <<>>
    /\ i = 0
    /\ merge_result \in {"None", "empty", "frame"}
    /\ \E n \in 0..MaxCandidates : \E c \in [1..n -> CandidateCells] :
          /\ n > 0 <=> merge_result = "frame"
          /\ merged_events = [k \in 1..n |-> Candidate(c[k], k)]
    /\ min_duration_hours \in {1, 2}
    /\ min_instruments \in {1, 2}
    /\ min_confidence \in {<<2, 10>>, <<5, 10>>}
    /\ valid_events = <<>>
    /\ validate_result = "pending"
    /\ pc = "validate"

NextValidate == ValidateCmeEvents

SpecValidate == InitValidate /\ [][NextValidate]_vars

-----------------------------------------------------------------------------
(* ThresholdOptimizer.calculate_background_statistics, for one parameter   *)
(*                                                                         *)
(* The index is one row a day: row k is at day k.  A statistic is a ratio; *)
(* the ratio <<0, 0>> is NaN.                                              *)

NaNStat == <<0, 0>>

bg_min_valid == 100
bg_min_periods == 10

\* Line 72: the invalid markers become NaN.
InvalidMarkers == {9, 99, 999, 9999, -999, -99, -9}

Replaced(s) == [k \in 1..Len(s) |-> IF s[k] \in InvalidMarkers THEN NaN ELSE s[k]]

\* Line 73: ffill().bfill().
Ffill(s) ==
    [k \in 1..Len(s) |->
        LET before == {j \in 1..k : s[j] # NaN}
        IN  IF before = {} THEN NaN ELSE s[SetMax(before)]]

Bfill(s) ==
    [k \in 1..Len(s) |->
        LET after == {j \in k..Len(s) : s[j] # NaN}
        IN  IF after = {} THEN NaN ELSE s[SetMin(after)]]

\* The rows of the series s[lo..hi] in the centered window of row k,
\* (t - window/2, t + window/2], that hold a value.
RollingWindow(s, lo, hi, k, days) ==
    {j \in lo..hi : 2 * (j - k) <= days /\ 2 * (k - j) < days /\ s[j] # NaN}

RECURSIVE SumValues(_, _, _)
SumValues(s, S, square) ==
    IF S = {} THEN 0
    ELSE LET j == CHOOSE x \in S : TRUE
         IN  (IF square THEN s[j] * s[j] ELSE s[j]) + SumValues(s, S \ {j}, square)

\* The r-th smallest value (r from 1) of the rows S.
KthSmallest(s, S, r) ==
    CHOOSE v \in {s[j] : j \in S} :
        /\ Cardinality({j \in S : s[j] < v}) < r
        /\ Cardinality({j \in S : s[j] <= v}) >= r

\* The quantile q / 100 with linear interpolation, in hundredths.
Quantile(s, S, q) ==
    LET n == Cardinality(S)
        pos == (n - 1) * q
        below == KthSmallest(s, S, (pos \div 100) + 1)
        above == IF pos % 100 = 0 THEN below ELSE KthSmallest(s, S, (pos \div 100) + 2)
    IN  <<100 * below + (pos % 100) * (above - below), 100>>

\* Lines 80-84: the five rolling statistics of row k over the series
\* s[lo..hi]; NaN with fewer than min_periods values in the window.  The std
\* is held as the variance.
RollingStats(s, lo, hi, k, days) ==
    LET w == RollingWindow(s, lo, hi, k, days)
        n == Cardinality(w)
        sum == SumValues(s, w, FALSE)
    IN  IF n < bg_min_periods
        THEN [bg_mean |-> NaNStat, bg_std |-> NaNStat, bg_median |-> NaNStat,
              bg_p95 |-> NaNStat, bg_p05 |-> NaNStat]
        ELSE [bg_mean |-> <<sum, n>>,
              bg_std |-> <<n * SumValues(s, w, TRUE) - sum * sum, n * (n - 1)>>,
              bg_median |-> Quantile(s, w, 50),
              bg_p95 |-> Quantile(s, w, 95),
              bg_p05 |-> Quantile(s, w, 5)]

\* Lines 71-73: the parameter is skipped unless more than 100 of its values
\* are not NaN; else the markers are replaced and the gaps filled.
BackgroundStart ==
    /\ pc = "background"
    /\ IF Cardinality({k \in 1..Len(bg_raw) : bg_raw[k] # NaN}) > bg_min_valid
       THEN /\ param_data' = Bfill(Ffill(Replaced(bg_raw)))
            /\ pc' = "background_chunks"
       ELSE /\ param_data' = <<>>
            /\ pc' = "background_skipped"
    /\ chunks' = <<>>
    /\ UNCHANGED <<analysisVars, sigmaVars, eventVars, candidateVars, isolationVars, mainVars, twiceVars, deriveVars, mergeVars, finalVars, detectVars, metricVars, validateVars,
                   bg_raw, window_days, chunk_size, bg_stats>>

\* The first row (from 1) of the chunk that comes after the chunks built.
NextChunkStart == Len(chunks) * chunk_size + 1

\* Lines 77-85: the statistics of the next chunk, rolled over the chunk alone.
ChunkStep ==
    /\ pc = "background_chunks"
    /\ NextChunkStart <= Len(param_data)
    /\ LET lo == NextChunkStart
           hi == IF lo + chunk_size - 1 < Len(param_data)
                 THEN lo + chunk_size - 1 ELSE Len(param_data)
       IN  chunks' = Append(chunks,
                        [k \in 1..(hi - lo + 1) |->
                            RollingStats(param_data, lo, hi, lo + k - 1, window_days)])
    /\ UNCHANGED <<analysisVars, sigmaVars, eventVars, candidateVars, isolationVars, mainVars, twiceVars, deriveVars, mergeVars, finalVars, detectVars, metricVars, validateVars,
                   bg_raw, param_data, window_days, chunk_size, bg_stats, pc>>

RECURSIVE Concat(_)
Concat(frames) == IF frames = <<>> THEN <<>> ELSE Head(frames) \o Concat(Tail(frames))

\* Lines 88-93: the chunks are concatenated and become the columns of df.
CombineChunks ==
    /\ pc = "background_chunks"
    /\ NextChunkStart > Len(param_data)
    /\ bg_stats' = Concat(chunks)
    /\ pc' = "background_done"
    /\ UNCHANGED <<analysisVars, sigmaVars, eventVars, candidateVars, isolationVars, mainVars, twiceVars, deriveVars, mergeVars, finalVars, detectVars, metricVars, validateVars,
                   bg_raw, param_data, window_days, chunk_size, chunks>>

\* The series has bg_min_valid + n rows, n up to MaxExtra.
MaxExtra == 2

\* The rows of a SWIS frame that have a background.
MaxFree == 3

\* The rows of the frame given to detect_events.
MaxSamples == 4

\* The rows of the swepam frame that differ from the quiet wind.
MaxHot == 2

\* A quiet series, but for the rows of FreeRows that take any of RawValues.
QuietValue(k) == 400 + 10 * (k % 3)

FreeRows == {1, 50, 51}

RawValues == {9, 380, 500}

InitBackground ==
    /\ AnalysisIdle
    /\ SigmaIdle
    /\ EventsIdle
    /\ CandidateIdle
    /\ IsolationIdle
    /\ MainIdle
    /\ TwiceIdle
    /\ DeriveIdle
    /\ MetricsIdle
    /\ FinalIdle
    /\ DetectIdle
    /\ MergeIdle
    /\ ValidateIdle
    /\ \E n \in 0..MaxExtra : \E free \in [FreeRows -> RawValues] :
          bg_raw = [k \in 1..(bg_min_valid + n) |->
                       IF k \in FreeRows THEN free[k] ELSE QuietValue(k)]
    /\ param_data = <<>>
    /\ window_days \in {20, 30}
    /\ chunk_size \in {50, 101, 100000}
    /\ chunks = <<>>
    /\ bg_stats = <<>>
    /\ pc = "background"

NextBackground == BackgroundStart \/ ChunkStep \/ CombineChunks

SpecBackground == InitBackground /\ [][NextBackground]_vars

-----------------------------------------------------------------------------
(* CMEDetectionSystem.derive_features, the swepam columns that the         *)
(* detect_* functions read                                                 *)
(*                                                                         *)
(* The swepam frame is at the 5-minute resolution of load_data (line 151): *)
(* row k is at minute 5 * (k - 1).  A moving average is a ratio, <<0, 0>>  *)
(* when it is NaN.                                                         *)

ma_window == 60
ma_min_periods == 10

\* rolling(window='60min', center=True, min_periods=...): the rows of the
\* window (t - 30min, t + 30min] of row k that hold a value of the column.
MaWindow(df, col, k) ==
    {j \in 1..Len(df) :
        /\ 2 * (df[j].datetime - df[k].datetime) <= ma_window
        /\ 2 * (df[k].datetime - df[j].datetime) < ma_window
        /\ df[j][col] # NaN}

RECURSIVE SumColumn(_, _, _)
SumColumn(df, col, S) ==
    IF S = {} THEN 0
    ELSE LET j == CHOOSE x \in S : TRUE
         IN  df[j][col] + SumColumn(df, col, S \ {j})

\* A moving average that is content with one value.
MovingAverageOfAny(df, col, k) ==
    LET w == MaWindow(df, col, k)
    IN  IF Cardinality(w) < 1 THEN NaNStat
        ELSE <<SumColumn(df, col, w), Cardinality(w)>>

\* .rolling(...).mean() at row k (lines 229, 233, 236).
MovingAverage(df, col, k) ==
    LET w == MaWindow(df, col, k)
    IN  IF Cardinality(w) < ma_min_periods THEN NaNStat
        ELSE <<SumColumn(df, col, w), Cardinality(w)>>

\* The least integer not below num / den, for den > 0: x > c is Ceil(x) > c
\* for every integer c.
Ceil(num, den) == -((-num) \div den)

\* 100 * (num / den) for num >= 0 and den >= 0, rounded up to the unit; x / 0
\* is inf and 0 / 0 is NaN.
Hundredths(num, den) ==
    IF den = 0 THEN (IF num = 0 THEN NaN ELSE PosInf) ELSE Ceil(100 * num, den)

\* Line 231: Bulk_Speed - speed_ma_1h.  The speeds of the model differ by
\* multiples of 660, so the difference is an integer for the window sizes
\* 10, 11 and 12.
speed_enhancement(df, k) ==
    LET ma == MovingAverage(df, "Bulk_Speed", k)
    IN  IF ma = NaNStat \/ df[k].Bulk_Speed = NaN THEN NaN
        ELSE (ma[2] * df[k].Bulk_Speed - ma[1]) \div ma[2]

\* Line 234: Proton_Density / density_ma_1h, in hundredths.
density_enhancement(df, k) ==
    LET ma == MovingAverage(df, "Proton_Density", k)
    IN  IF ma = NaNStat \/ df[k].Proton_Density = NaN THEN NaN
        ELSE Hundredths(df[k].Proton_Density * ma[2], ma[1])

\* Line 237: temp_ma_1h / Ion_Temperature, in hundredths.
temp_depression(df, k) ==
    LET ma == MovingAverage(df, "Ion_Temperature", k)
    IN  IF ma = NaNStat \/ df[k].Ion_Temperature = NaN THEN NaN
        ELSE Hundredths(ma[1], ma[2] * df[k].Ion_Temperature)

\* Lines 227-237 and 280: the frame with the derived columns.
WithFeatures(df) ==
    [k \in 1..Len(df) |->
        [datetime |-> df[k].datetime,
         Bulk_Speed |-> df[k].Bulk_Speed,
         Proton_Density |-> df[k].Proton_Density,
         Ion_Temperature |-> df[k].Ion_Temperature,
         speed_ma_1h |-> MovingAverage(df, "Bulk_Speed", k),
         speed_enhancement |-> speed_enhancement(df, k),
         density_ma_1h |-> MovingAverage(df, "Proton_Density", k),
         density_enhancement |-> density_enhancement(df, k),
         temp_ma_1h |-> MovingAverage(df, "Ion_Temperature", k),
         temp_depression |-> temp_depression(df, k)]]

\* The integer square root.
Isqrt(x) == CHOOSE r \in 0..x : r * r <= x /\ (r + 1) * (r + 1) > x

\* Line 247: sqrt(Bx.diff()**2 + By.diff()**2 + Bz.diff()**2), in
\* thousandths; NaN in the first row.  The fields of the model are whole nT
\* whose differences give a whole root.
field_rotation(df, k) ==
    IF k = 1 \/ \E c \in {"Bx", "By", "Bz"} : df[k][c] = NaN \/ df[k - 1][c] = NaN
    THEN NaN
    ELSE 1000 * Isqrt((df[k].Bx - df[k - 1].Bx) * (df[k].Bx - df[k - 1].Bx)
                      + (df[k].By - df[k - 1].By) * (df[k].By - df[k - 1].By)
                      + (df[k].Bz - df[k - 1].Bz) * (df[k].Bz - df[k - 1].Bz))

\* Lines 244-248 and 280: the mag frame with the derived columns.  plasma_beta
\* (lines 250-259) needs more than 100 rows in common with swepam and is
\* read by none of the detect_* functions.
WithFieldFeatures(df) ==
    LET rotated == [k \in 1..Len(df) |->
                       [x \in DOMAIN df[k] \cup {"field_rotation"} |->
                           IF x = "field_rotation" THEN field_rotation(df, k)
                           ELSE df[k][x]]]
    IN  [k \in 1..Len(df) |->
            LET ma == MovingAverage(df, "Bt", k)
            IN  [datetime |-> df[k].datetime,
                 Bt |-> df[k].Bt, Bx |-> df[k].Bx, By |-> df[k].By, Bz |-> df[k].Bz,
                 Bt_ma_1h |-> ma,
                 field_enhancement |->
                     IF ma = NaNStat \/ df[k].Bt = NaN THEN NaN
                     ELSE Hundredths(df[k].Bt * ma[2], ma[1]),
                 field_rotation |-> rotated[k].field_rotation,
                 rotation_ma_1h |-> MovingAverage(rotated, "field_rotation", k)]]

\* The moving average of line 268 for flux column c of proton_flux, the
\* columns with 'Proton' in their name (line 262).
FluxAverage(df, c, k) ==
    LET column == [j \in 1..Len(df) |->
                      [datetime |-> df[j].datetime, flux |-> df[j].proton_flux[c]]]
    IN  MovingAverage(column, "flux", k)

\* Lines 262-270 and 280: the epam or sis frame with the derived columns of
\* its first five flux columns.
WithFluxFeatures(df) ==
    [k \in 1..Len(df) |->
        LET cols == 1..(IF Len(df[k].proton_flux) < 5 THEN Len(df[k].proton_flux) ELSE 5)
        IN  [datetime |-> df[k].datetime,
             proton_flux |-> df[k].proton_flux,
             proton_ma_1h |-> [c \in cols |-> FluxAverage(df, c, k)],
             proton_enhancement |->
                 [c \in cols |->
                     LET ma == FluxAverage(df, c, k)
                     IN  IF ma = NaNStat \/ df[k].proton_flux[c] = NaN THEN NaN
                         ELSE Hundredths(df[k].proton_flux[c] * ma[2], ma[1])],
             proton_gradient |->
                 [c \in cols |->
                     IF k = 1 \/ df[k].proton_flux[c] = NaN \/ df[k - 1].proton_flux[c] = NaN
                     THEN NaN
                     ELSE df[k].proton_flux[c] - df[k - 1].proton_flux[c]]]]

\* Lines 222-280 for one instrument: an empty frame is skipped, a column that
\* is read and is not there raises KeyError, and the frame with the derived
\* columns is stored otherwise.
derive_instrument(instrument, df) ==
    LET needed == CASE instrument = "swepam" ->
                           {"datetime", "Bulk_Speed", "Proton_Density", "Ion_Temperature"}
                    [] instrument = "mag" -> {"datetime", "Bt", "Bx", "By", "Bz"}
                    [] OTHER -> {"datetime"}
    IN  IF Len(df) = 0
        THEN [skipped |-> TRUE, raised |-> "", frame |-> df]
        ELSE IF ~(needed \subseteq DOMAIN df[1])
        THEN [skipped |-> FALSE, raised |-> "KeyError", frame |-> df]
        ELSE [skipped |-> FALSE, raised |-> "",
              frame |-> CASE instrument = "swepam" -> WithFeatures(df)
                          [] instrument = "mag" -> WithFieldFeatures(df)
                          [] OTHER -> WithFluxFeatures(df)]

\* derive_features, lines 217-284.
DeriveFeatures ==
    /\ pc = "derive"
    /\ LET out == [x \in DOMAIN processed_data |-> derive_instrument(x, processed_data[x])]
           order == SelectSeq(file_mapping, LAMBDA x : x \in DOMAIN processed_data)
           after == TryEach(order, out, processed_data, error_log)
       IN  /\ processed_data' = after.map
           /\ error_log' = after.log
           /\ pc' = IF after.escaped THEN "derive_raised" ELSE "derived"
    /\ UNCHANGED <<analysisVars, sigmaVars, eventVars, candidateVars, mainVars, twiceVars, mergeVars, finalVars, metricVars, validateVars,
                   backgroundVars, detect_todo, all_detections, signature_flags,
                   data_files, data, step_before>>

\* The three detect_* functions on the swepam frame indexed by datetime
\* (lines 347-351).
DetectSignatures ==
    /\ pc = "derived"
    /\ signature_flags' =
           [speed_enhancement |-> detect_speed_enhancements(processed_data["swepam"]),
            density_enhancement |-> detect_density_enhancements(processed_data["swepam"]),
            temp_depression |-> detect_temperature_depressions(processed_data["swepam"])]
    /\ pc' = "signatures_detected"
    /\ UNCHANGED <<analysisVars, sigmaVars, eventVars, candidateVars, isolationVars, mainVars, twiceVars, mergeVars, finalVars, metricVars, validateVars, backgroundVars,
                   detectVars>>

\* The swepam frame has SwepamRows rows: nine hours at 5 minutes.
SwepamRows == 108

\* A quiet wind, but for the rows of SpikeRows: row 2 has no background, row
\* 4 has one of exactly 10 rows and row 103 has a full one.
SpikeRows == {2, 4, 103}

SpikeCells(k) ==
    CASE k = 2 ->
             [Bulk_Speed : {400, 1060}, Proton_Density : {NaN, 20}, Ion_Temperature : {40}]
      [] k = 4 ->
             [Bulk_Speed : {400}, Proton_Density : {5, 20}, Ion_Temperature : {100}]
      [] OTHER ->
             [Bulk_Speed : {400, 1060}, Proton_Density : {5, 20}, Ion_Temperature : {40, 100}]

QuietCells == [Bulk_Speed |-> 400, Proton_Density |-> 5, Ion_Temperature |-> 100]

InitDerive ==
    /\ AnalysisIdle
    /\ SigmaIdle
    /\ EventsIdle
    /\ CandidateIdle
    /\ IsolationIdle
    /\ MainIdle
    /\ TwiceIdle
    /\ MetricsIdle
    /\ FinalIdle
    /\ MergeIdle
    /\ ValidateIdle
    /\ BackgroundIdle
    /\ \E spikes \in [SpikeRows -> UNION {SpikeCells(k) : k \in SpikeRows}] :
          /\ \A k \in SpikeRows : spikes[k] \in SpikeCells(k)
          /\ processed_data =
                 [x \in {"swepam"} |->
                        [k \in 1..SwepamRows |->
                            LET cells == IF k \in SpikeRows THEN spikes[k] ELSE QuietCells
                            IN  [datetime |-> 5 * (k - 1),
                                 Bulk_Speed |-> cells.Bulk_Speed,
                                 Proton_Density |-> cells.Proton_Density,
                                 Ion_Temperature |-> cells.Ion_Temperature]]]
    /\ detect_todo = <<>>
    /\ all_detections = <<>>
    /\ signature_flags = <<>>
    /\ pc = "derive"

NextDerive == DeriveFeatures \/ DetectSignatures

SpecDerive == InitDerive /\ [][NextDerive]_vars

-----------------------------------------------------------------------------
(* detect_cme_speed_signatures called on an array of any length *)

SigLen == 3

InitSignatures ==
    /\ AnalysisIdle
    /\ SigmaIdle
    /\ EventsIdle
    /\ CandidateIdle
    /\ IsolationIdle
    /\ MainIdle
    /\ TwiceIdle
    /\ DeriveIdle
    /\ BackgroundIdle
    /\ ValidateIdle
    /\ MetricsIdle
    /\ MergeIdle
    /\ DetectIdle
    /\ proton_density = <<>>
    /\ \E n \in 0..SigLen : proton_bulk_speed \in [1..n -> FlagSpeeds]
    /\ proton_thermal = <<>>
    /\ alpha_density = <<>>
    /\ score = <<>>
    /\ score_terms = <<>>
    /\ signatures = NoSignatures
    /\ threshold_flags = NoFlags
    /\ pc = "signatures"

NextSignatures == DetectCmeSpeedSignatures

SpecSignatures == InitSignatures /\ [][NextSignatures]_vars

-----------------------------------------------------------------------------
(* merge_detections called twice in a row with the same time_window_hours *)

\* The first call has returned: the caller keeps what it returned and calls
\* again.
MergeAgain ==
    /\ pc = "merged"
    /\ merge_calls = 0
    /\ merge_calls' = 1
    /\ first_result' = [result |-> merge_result, events |-> merged_events]
    /\ merge_result' = "pending"
    /\ pc' = "merge"
    /\ UNCHANGED <<analysisVars, sigmaVars, eventVars, candidateVars, isolationVars, mainVars, deriveVars, backgroundVars, validateVars, finalVars, detectVars,
                   metricVars, detection_results, combined_events, merged_events,
                   window_log, i, results_before>>

InitMergeTwice ==
    /\ AnalysisIdle
    /\ SigmaIdle
    /\ EventsIdle
    /\ CandidateIdle
    /\ IsolationIdle
    /\ MainIdle
    /\ DeriveIdle
    /\ BackgroundIdle
    /\ ValidateIdle
    /\ MetricsIdle
    /\ FinalIdle
    /\ DetectIdle
    /\ \E n \in 0..MaxDet : \E f \in [1..n -> DetectionRows] :
          /\ RowsInOrder(f)
          /\ detection_results =
                 [inst \in {f[k].instrument : k \in 1..n} |-> FrameOf(f, inst)]
    /\ combined_events = <<>>
    /\ merged_events = <<>>
    /\ window_log = <<>>
    /\ i = 0
    /\ merge_result = "pending"
    /\ merge_calls = 0
    /\ first_result = <<>>
    /\ results_before = detection_results
    /\ pc = "merge"

NextMergeTwice == MergeStart \/ MergeLoop \/ MergeReturn \/ MergeAgain

SpecMergeTwice == InitMergeTwice /\ [][NextMergeTwice]_vars

-----------------------------------------------------------------------------
(* The aggregate functions, each called on its own: calculate_cme_score,   *)
(* detect_cme_thresholds and _calculate_validation_metrics                 *)

\* detect_cme_thresholds called on four arrays of one length.
InitThresholds ==
    /\ AnalysisIdle
    /\ SigmaIdle
    /\ EventsIdle
    /\ CandidateIdle
    /\ IsolationIdle
    /\ MainIdle
    /\ TwiceIdle
    /\ DeriveIdle
    /\ BackgroundIdle
    /\ ValidateIdle
    /\ MetricsIdle
    /\ MergeIdle
    /\ DetectIdle
    /\ \E n \in 0..MaxLen :
          /\ proton_density \in [1..n -> FlagDensities]
          /\ proton_bulk_speed \in [1..n -> FlagSpeeds]
          /\ proton_thermal \in [1..n -> FlagThermals]
          /\ alpha_density \in [1..n -> FlagAlphas]
    /\ score = <<>>
    /\ score_terms = <<>>
    /\ signatures = NoSignatures
    /\ threshold_flags = NoFlags
    /\ pc = "thresholds"

InitAggregates == InitScore \/ InitThresholds \/ InitMetrics

NextAggregates ==
    \/ CalculateCmeScore
    \/ DetectCmeThresholds
    \/ MetricsStart
    \/ SyntheticStep
    \/ DetectionStep
    \/ MetricsReturn

SpecAggregates == InitAggregates /\ [][NextAggregates]_vars

-----------------------------------------------------------------------------
(* final_processing.main                                                   *)
(*                                                                         *)
(* A frame is a function from the names of its columns to their values.    *)
(* The AUX columns and the thresholds dict that main also builds are not   *)
(* held: they are computed after the check of the required variables.      *)

\* Line 285.
required == <<"proton_density", "proton_bulk_speed", "proton_thermal", "alpha_density">>

\* Line 286.
missing(frame) == SelectSeq(required, LAMBDA c : c \notin DOMAIN frame)

\* Lines 280-298: the check of the required variables; with all of them
\* there, the four columns become the arguments of calculate_cme_score.
MainStart ==
    /\ pc = "main"
    /\ IF missing(L2_BLK_data) # <<>>
       THEN /\ main_error' = [type |-> "KeyError", variables |-> missing(L2_BLK_data)]
            /\ pc' = "main_raised"
            /\ UNCHANGED inputVars
       ELSE /\ proton_density' = L2_BLK_data["proton_density"]
            /\ proton_bulk_speed' = L2_BLK_data["proton_bulk_speed"]
            /\ proton_thermal' = L2_BLK_data["proton_thermal"]
            /\ alpha_density' = L2_BLK_data["alpha_density"]
            /\ pc' = "score"
            /\ UNCHANGED main_error
    /\ UNCHANGED <<analysisVars, sigmaVars, eventVars, twiceVars, deriveVars, backgroundVars, validateVars, mergeVars,
                   detectVars, metricVars, score, score_terms, signatures,
                   threshold_flags, L2_BLK_data, final_output, out_csv, df_arg, fn_error,
                   isolationVars, candidateVars>>

\* Lines 294-303: the score becomes a column of final_output and
\* detect_cme_speed_signatures is called.
MainAssignScore ==
    /\ pc = "scored"
    /\ final_output' = [x \in {"score"} |-> score]
    /\ pc' = "signatures"
    /\ UNCHANGED <<analysisVars, sigmaVars, eventVars, candidateVars, isolationVars, twiceVars, deriveVars, backgroundVars, validateVars, mergeVars,
                   detectVars, metricVars, finalVars, L2_BLK_data, out_csv, main_error,
                   df_arg, fn_error>>

\* The columns of final_output once the signatures and the flags are in
\* (lines 305-319).
FinalOutput(fo, sig, flags) ==
    [x \in {"score", "speed_enhancement", "rapid_increase", "acceleration_flag",
            "acceleration_changes", "alpha_flag", "speed_flag", "temp_flag"} |->
        CASE x = "score" -> fo["score"]
          [] x = "speed_enhancement" -> sig.enhancement_scores
          [] x = "rapid_increase" -> sig.rapid_increases
          [] x = "acceleration_flag" -> sig.accelerations
          [] x = "acceleration_changes" -> sig.acceleration_changes
          [] x = "alpha_flag" -> flags.alpha_flag
          [] x = "speed_flag" -> flags.speed_flag
          [] OTHER -> flags.temp_flag]

\* Lines 305-367: the signatures and the flags become columns and the
\* combined frame is written to out_csv.
MainWrite ==
    /\ pc = "flagged"
    /\ final_output' = FinalOutput(final_output, signatures, threshold_flags)
    /\ out_csv' = FinalOutput(final_output, signatures, threshold_flags)
    /\ pc' = "main_returned"
    /\ UNCHANGED <<analysisVars, sigmaVars, eventVars, candidateVars, isolationVars, twiceVars, deriveVars, backgroundVars, validateVars, mergeVars,
                   detectVars, metricVars, finalVars, L2_BLK_data, main_error, df_arg,
                   fn_error>>

-----------------------------------------------------------------------------
(* preprocessing_cdf_file: calculate_alpha_to_proton_ratio and             *)
(* calculate_dynamic_pressure                                              *)

\* A test that is content with either column.
ratio_columns_either(frame) ==
    "alpha_density" \in DOMAIN frame \/ "proton_density" \in DOMAIN frame

\* The condition of line 492.
ratio_columns_present(frame) ==
    "alpha_density" \in DOMAIN frame /\ "proton_density" \in DOMAIN frame

\* The condition of line 523.
pressure_columns_present(frame) ==
    "proton_density" \in DOMAIN frame /\ "proton_bulk_speed" \in DOMAIN frame

\* frame[col] = values.
WithColumn(frame, col, values) ==
    [x \in DOMAIN frame \cup {col} |-> IF x = col THEN values ELSE frame[x]]

\* Line 493: alpha_density / proton_density, row by row; the ratio <<a, 0>>
\* is the inf or NaN of the float division.
alpha_to_proton_ratio(frame) ==
    [k \in 1..Len(frame["alpha_density"]) |->
        <<frame["alpha_density"][k], frame["proton_density"][k]>>]

\* Line 524: proton_density * proton_bulk_speed ** 2, in units of 1.67e-6.
P_dyn(frame) ==
    [k \in 1..Len(frame["proton_density"]) |->
        frame["proton_density"][k] * frame["proton_bulk_speed"][k]
            * frame["proton_bulk_speed"][k]]

\* calculate_alpha_to_proton_ratio, lines 482-495; reading a column that is
\* not there raises KeyError.
CalculateAlphaToProtonRatio ==
    /\ pc = "ratio"
    /\ IF ratio_columns_present(df_arg)
       THEN IF {"alpha_density", "proton_density"} \subseteq DOMAIN df_arg
            THEN /\ df_arg' = WithColumn(df_arg, "alpha_to_proton_ratio", alpha_to_proton_ratio(df_arg))
                 /\ fn_error' = ""
            ELSE /\ fn_error' = "KeyError"
                 /\ UNCHANGED df_arg
       ELSE /\ fn_error' = "ValueError"
            /\ UNCHANGED df_arg
    /\ pc' = "ratio_done"
    /\ UNCHANGED <<analysisVars, sigmaVars, eventVars, candidateVars, isolationVars, twiceVars, deriveVars, backgroundVars, validateVars, mergeVars,
                   detectVars, metricVars, finalVars, L2_BLK_data, final_output,
                   out_csv, main_error>>

\* calculate_dynamic_pressure, lines 513-526.
CalculateDynamicPressure ==
    /\ pc = "pressure"
    /\ IF pressure_columns_present(df_arg)
       THEN /\ df_arg' = WithColumn(df_arg, "P_dyn", P_dyn(df_arg))
            /\ fn_error' = ""
       ELSE /\ fn_error' = "ValueError"
            /\ UNCHANGED df_arg
    /\ pc' = "pressure_done"
    /\ UNCHANGED <<analysisVars, sigmaVars, eventVars, candidateVars, isolationVars, twiceVars, deriveVars, backgroundVars, validateVars, mergeVars,
                   detectVars, metricVars, finalVars, L2_BLK_data, final_output,
                   out_csv, main_error>>

\* The values of a column of a frame of the model.
ColumnValues(c) ==
    CASE c = "proton_density" -> {0, 5000}
      [] c = "proton_bulk_speed" -> {FILL_VALUE, 480, 600}
      [] c = "proton_thermal" -> {20, 30}
      [] c = "alpha_density" -> {FILL_VALUE, 500}
      [] OTHER -> {0}

\* The values of a column of the frame handed to a derivation function:
\* densities in cm^-3 and speeds in km/s, a zero density among them.
DerivationValues(c) ==
    CASE c = "proton_density" -> {0, 5}
      [] c = "proton_bulk_speed" -> {400, 600}
      [] OTHER -> {0, 1}

\* The frames with some of the columns of values, all of n rows.
Frames(values, n) ==
    UNION {{f \in [present -> [1..n -> UNION {values[c] : c \in present}]] :
               \A c \in present : \A k \in 1..n : f[c][k] \in values[c]} :
           present \in SUBSET DOMAIN values}

\* main called on the converted L2 file.
InitMain ==
    /\ AnalysisIdle
    /\ SigmaIdle
    /\ EventsIdle
    /\ CandidateIdle
    /\ IsolationIdle
    /\ TwiceIdle
    /\ DeriveIdle
    /\ BackgroundIdle
    /\ ValidateIdle
    /\ MetricsIdle
    /\ MergeIdle
    /\ DetectIdle
    /\ FinalIdle
    /\ \E n \in 0..MaxLen :
          L2_BLK_data \in Frames([c \in {required[k] : k \in 1..4} \cup {"alpha_bulk_speed"} |->
                                      ColumnValues(c)], n)
    /\ final_output = <<>>
    /\ out_csv = <<>>
    /\ main_error = <<>>
    /\ df_arg = <<>>
    /\ fn_error = ""
    /\ pc = "main"

\* One of the two derivation functions called on a frame.
InitDerivation ==
    /\ AnalysisIdle
    /\ SigmaIdle
    /\ EventsIdle
    /\ CandidateIdle
    /\ IsolationIdle
    /\ TwiceIdle
    /\ DeriveIdle
    /\ BackgroundIdle
    /\ ValidateIdle
    /\ MetricsIdle
    /\ MergeIdle
    /\ DetectIdle
    /\ FinalIdle
    /\ L2_BLK_data = <<>>
    /\ final_output = <<>>
    /\ out_csv = <<>>
    /\ main_error = <<>>
    /\ \E n \in 0..MaxLen :
          df_arg \in Frames([c \in {"alpha_density", "proton_density", "proton_bulk_speed"} |->
                                 DerivationValues(c)], n)
    /\ fn_error = ""
    /\ pc \in {"ratio", "pressure"}

InitMissing == InitMain \/ InitDerivation

NextMissing ==
    \/ MainStart
    \/ CalculateCmeScore
    \/ MainAssignScore
    \/ DetectCmeSpeedSignatures
    \/ DetectCmeThresholds
    \/ MainWrite
    \/ CalculateAlphaToProtonRatio
    \/ CalculateDynamicPressure

SpecMissing == InitMissing /\ [][NextMissing]_vars

-----------------------------------------------------------------------------
(* CMEDetectionSystem.load_data                                            *)
(*                                                                         *)
(* A CSV file is held by what load_data reads of it: whether it is there,  *)
(* its rows, its time columns, the rows with a valid datetime and the      *)
(* minutes of the first and the last of them.  A loaded frame is held by   *)
(* its datetime column: its first and last label and their distance.       *)

\* Line 148.
downsample_rows == 1000000

\* Line 151: resample('5min'), whose bins are labelled by their left edge,
\* with every bin between the first and the last filled by interpolate.
Resampled(file) ==
    [first |-> 5 * (file.first \div 5), last |-> 5 * (file.last \div 5), freq |-> 5]

\* Lines 86-159 for one instrument.  Line 112 reads the column HHMM, which a
\* file with separate HH and MM columns does not have; resample (line 154)
\* is given the integer of self.time_resolutions as its rule, which pandas
\* rejects with a ValueError.
load_instrument(instrument, file) ==
    LET raise(exc) == [skipped |-> FALSE, raised |-> exc, frame |-> <<>>]
    IN  IF ~file.exists THEN raise("FileNotFoundError")
        ELSE IF file.rows = 0 THEN raise("ValueError")
        ELSE IF file.time_columns = "none" THEN raise("ValueError")
        ELSE IF file.time_columns = "HH_MM" THEN raise("KeyError")
        ELSE IF file.valid = 0 THEN [skipped |-> TRUE, raised |-> "", frame |-> <<>>]
        ELSE IF instrument = "swepam" /\ file.valid > downsample_rows
        THEN [skipped |-> FALSE, raised |-> "", frame |-> Resampled(file)]
        ELSE raise("ValueError")

\* load_data, lines 74-162.
LoadData ==
    /\ pc = "load"
    /\ LET out == [x \in Instruments |-> load_instrument(x, data_files[x])]
           after == TryEach(file_mapping, out, data, error_log)
       IN  /\ data' = after.map
           /\ error_log' = after.log
           /\ pc' = IF after.escaped THEN "load_raised" ELSE "loaded"
    /\ UNCHANGED <<analysisVars, sigmaVars, eventVars, candidateVars, mainVars, twiceVars, deriveVars, backgroundVars, validateVars, mergeVars,
                   finalVars, detectVars, metricVars, data_files, step_before>>

\* A file of the given rows, one a minute from minute first on, the first
\* valid of them with a datetime that parses.
File(time_columns, rows, valid, first) ==
    [exists |-> TRUE, rows |-> rows, time_columns |-> time_columns, valid |-> valid,
     first |-> first, last |-> first + rows - 1]

\* The files of the model: no file, no row, no time column, separate HH and
\* MM columns, no valid datetime, two valid rows, and exactly and one more
\* than downsample_rows valid rows.
Files ==
    {[exists |-> FALSE, rows |-> 0, time_columns |-> "none", valid |-> 0,
      first |-> 0, last |-> 0],
     File("HHMM", 0, 0, 0),
     File("none", 2, 0, 3),
     File("HH_MM", 2, 2, 3),
     File("HHMM", 2, 0, 3),
     File("HHMM", 2, 2, 3),
     File("HHMM", downsample_rows, downsample_rows, 3),
     File("HHMM", downsample_rows + 1, downsample_rows + 1, 3)}

\* self.data of a system that has loaded a long swepam file before.
EarlierData ==
    [x \in {"swepam"} |->
        Resampled(File("HHMM", 2 * downsample_rows, 2 * downsample_rows,
                       -3 * downsample_rows))]

\* load_data called on a new system, or once more.
InitLoad ==
    /\ AnalysisIdle
    /\ SigmaIdle
    /\ EventsIdle
    /\ CandidateIdle
    /\ MainIdle
    /\ TwiceIdle
    /\ DeriveIdle
    /\ BackgroundIdle
    /\ ValidateIdle
    /\ MetricsIdle
    /\ MergeIdle
    /\ DetectIdle
    /\ FinalIdle
    /\ data_files \in [Instruments -> Files]
    /\ data \in {<<>>, EarlierData}
    /\ error_log = <<>>
    /\ step_before = data
    /\ pc = "load"

-----------------------------------------------------------------------------
(* derive_features and composite_cme_detection on frames that make one     *)
(* instrument fail                                                         *)

\* Two rows, five minutes apart.
TwoRows(first, second) ==
    [k \in 1..2 |->
        [x \in DOMAIN first \cup {"datetime"} |->
            IF x = "datetime" THEN 5 * (k - 1)
            ELSE IF k = 1 THEN first[x] ELSE second[x]]]

\* The preprocessed swepam frames of the model; the last has no
\* Ion_Temperature column.
SwepamFrames ==
    {TwoRows([Bulk_Speed |-> 400, Proton_Density |-> 5, Ion_Temperature |-> 100],
             [Bulk_Speed |-> 1060, Proton_Density |-> 20, Ion_Temperature |-> 40]),
     TwoRows([Bulk_Speed |-> 400, Proton_Density |-> 5],
             [Bulk_Speed |-> 1060, Proton_Density |-> 20])}

\* The preprocessed mag frames of the model; the last has no Bz column.
MagFrames ==
    {TwoRows([Bt |-> 5, Bx |-> 0, By |-> 0, Bz |-> 0],
             [Bt |-> 5, Bx |-> bx, By |-> by, Bz |-> 0]) : bx \in {0, 3}, by \in {0, 4}}
    \cup {TwoRows([Bt |-> 5, Bx |-> 0, By |-> 0], [Bt |-> 5, Bx |-> 3, By |-> 4])}

\* The preprocessed epam and sis frames of the model, with and without a
\* flux column of protons.
FluxFrames ==
    {TwoRows([proton_flux |-> <<>>], [proton_flux |-> <<>>]),
     TwoRows([proton_flux |-> <<100>>], [proton_flux |-> <<250>>])}

\* The maps of some of the instruments to one of their frames.
ProcessedMaps ==
    UNION {{m \in [present -> SwepamFrames \cup MagFrames \cup FluxFrames] :
               \A x \in present :
                   m[x] \in CASE x = "swepam" -> SwepamFrames
                              [] x = "mag" -> MagFrames
                              [] OTHER -> FluxFrames} :
           present \in SUBSET Instruments}

\* derive_features called on the preprocessed frames.
InitDeriveAll ==
    /\ AnalysisIdle
    /\ SigmaIdle
    /\ EventsIdle
    /\ CandidateIdle
    /\ MainIdle
    /\ TwiceIdle
    /\ DeriveIdle
    /\ BackgroundIdle
    /\ ValidateIdle
    /\ MetricsIdle
    /\ MergeIdle
    /\ FinalIdle
    /\ processed_data \in ProcessedMaps
    /\ detect_todo = <<>>
    /\ all_detections = <<>>
    /\ data_files = <<>>
    /\ data = <<>>
    /\ error_log = <<>>
    /\ step_before = processed_data
    /\ pc = "derive"

\* self.detection_results of a system that has run the detection on a mag
\* frame before.
EarlierResults ==
    [x \in {"mag"} |-> <<[datetime |-> -30, cme_detected |-> "NaN", confidence |-> 0]>>]

\* composite_cme_detection called on frames with the derived columns, for
\* the first time or once more.
InitDetectAgain ==
    /\ AnalysisIdle
    /\ SigmaIdle
    /\ EventsIdle
    /\ CandidateIdle
    /\ MainIdle
    /\ TwiceIdle
    /\ DeriveIdle
    /\ BackgroundIdle
    /\ ValidateIdle
    /\ MetricsIdle
    /\ FinalIdle
    /\ detection_results \in {<<>>, EarlierResults}
    /\ combined_events = <<>>
    /\ merged_events = <<>>
    /\ window_log = <<>>
    /\ i = 0
    /\ merge_result = "pending"
    /\ \E n \in [Instruments -> 0..1] :
       \E sw \in [1..n["swepam"] -> SwepamCells] :
       \E mg \in [1..n["mag"] -> MagCells] :
       \E ep \in [1..n["epam"] -> ParticleCells] :
           processed_data =
               [x \in Instruments |->
                   CASE x = "swepam" -> [k \in 1..n[x] |-> WithDatetime(sw[k], k)]
                     [] x = "mag" -> [k \in 1..n[x] |-> WithDatetime(mg[k], k)]
                     [] x = "epam" -> [k \in 1..n[x] |-> WithDatetime(ep[k], k)]
                     [] OTHER -> [k \in 1..n[x] |-> WithDatetime([proton_enhancement |-> <<250>>], k)]]
    /\ detect_todo = <<>>
    /\ all_detections = <<>>
    /\ data_files = <<>>
    /\ data = <<>>
    /\ error_log = <<>>
    /\ step_before = detection_results
    /\ pc = "detect"

InitIsolation == InitLoad \/ InitDeriveAll \/ InitDetectAgain

NextIsolation ==
    \/ LoadData
    \/ DeriveFeatures
    \/ CompositeStart
    \/ DetectInstrument
    \/ CompositeReturn

SpecIsolation == InitIsolation /\ [][NextIsolation]_vars

-----------------------------------------------------------------------------
(* validate_cme_events(merge_detections()), as run_full_analysis calls them *)

\* Line 641: validate_cme_events is called on what merge_detections returned,
\* with the default minima.
CallValidate ==
    /\ pc = "merged"
    /\ min_duration_hours' = 2
    /\ min_instruments' = 1
    /\ min_confidence' = <<2, 10>>
    /\ pc' = "validate"
    /\ UNCHANGED <<analysisVars, sigmaVars, eventVars, candidateVars, isolationVars, mainVars, twiceVars, deriveVars, backgroundVars, mergeVars,
                   finalVars, detectVars, metricVars, valid_events, validate_result>>

NextMergeValidate ==
    \/ MergeStart
    \/ MergeLoop
    \/ MergeReturn
    \/ CallValidate
    \/ ValidateCmeEvents

SpecMergeValidate == InitMerge /\ [][NextMergeValidate]_vars

-----------------------------------------------------------------------------
(* SWISDataLoader.detect_cme_candidates, swis_data_loader.py lines 225-281,  *)
(* and calculate_background_levels, lines 166-184.  Row k of the model is    *)
(* row k - 1 of the frame; times are in seconds, densities in cm^-3, speeds  *)
(* in km/s and the alpha/proton ratio in hundredths.                         *)

\* Lines 30-35: self.cme_thresholds, the factors as exact ratios.
proton_density_increase == <<2, 1>>
proton_speed_increase == <<3, 2>>
proton_thermal_increase == <<2, 1>>
alpha_proton_ratio_increase == <<2, 1>>
minimum_duration_minutes == 30

\* Line 166: the default of window_hours, which line 239 leaves in place.
window_hours == 6

\* Line 235: a frame of fewer rows is not analysed.
min_rows == 1000

\* Line 177: window_size = window_hours * 3600 // 5.
window_size == (window_hours * 3600) \div 5

\* The rows between the centre of a centered window and its last row.
window_offset == (window_size - 1) \div 2

\* Lines 180 and 250-255: the parameters and their thresholds.
SwisParams ==
    {"proton_density", "proton_bulk_speed", "proton_thermal_speed", "alpha_proton_ratio"}

cme_threshold(param) ==
    CASE param = "proton_density" -> proton_density_increase
      [] param = "proton_bulk_speed" -> proton_speed_increase
      [] param = "proton_thermal_speed" -> proton_thermal_increase
      [] param = "alpha_proton_ratio" -> alpha_proton_ratio_increase

\* The quiet wind, sampled every 5 seconds.
quiet_row ==
    [proton_density |-> 5, proton_bulk_speed |-> 400, proton_thermal_speed |-> 30,
     alpha_proton_ratio |-> 4, gap_after |-> 5]

\* The first row whose centered window is full.
FirstFull == window_size - window_offset

\* The rows held in swis_cells.
CellRows == {FirstFull + x - 1 : x \in DOMAIN swis_cells}

\* df.iloc[k] without its timestamp; gap_after is the time to the next row.
df_row(k) ==
    IF k \in CellRows THEN swis_cells[k - FirstFull + 1] ELSE quiet_row

RECURSIVE GapSum(_)
GapSum(S) ==
    IF S = {} THEN 0
    ELSE LET j == CHOOSE x \in S : TRUE
         IN  df_row(j).gap_after - quiet_row.gap_after + GapSum(S \ {j})

\* df.iloc[k]['timestamp'].
timestamp(k) ==
    quiet_row.gap_after * (k - 1) + GapSum({j \in CellRows : j < k})

\* The rows of the window of rolling(window=window_size, center=True) at row k.
WindowFirst(k) == k + window_offset - window_size + 1
WindowLast(k) == k + window_offset

\* The number of rows of the window of row k with a value of param below v
\* (or equal to it, with orEqual).
RankIn(param, k, v, orEqual) ==
    LET special == {j \in CellRows : j >= WindowFirst(k) /\ j <= WindowLast(k)}
        counts(x) == IF orEqual THEN x <= v ELSE x < v
    IN  (IF counts(quiet_row[param]) THEN window_size - Cardinality(special) ELSE 0)
        + Cardinality({j \in special : counts(df_row(j)[param])})

\* The r-th smallest value of param in the window of row k.
WindowKth(param, k, r) ==
    CHOOSE v \in {quiet_row[param]} \cup {df_row(j)[param] : j \in CellRows} :
        /\ RankIn(param, k, v, FALSE) < r
        /\ RankIn(param, k, v, TRUE) >= r

\* Line 182: twice the median of the window (the window has an even number
\* of rows, the median is the mean of the two middle values).
RollingMedian2(param, k) ==
    WindowKth(param, k, window_size \div 2) + WindowKth(param, k, window_size \div 2 + 1)

\* Lines 166-184: calculate_background_levels.  min_periods defaults to the
\* window size, so only the rows whose window lies inside the frame hold a
\* value.
calculate_background_levels ==
    [param \in SwisParams |->
        [k \in {x \in FirstFull..(swis_len - window_offset) : TRUE} |->
            RollingMedian2(param, k)]]

\* Lines 257-258: row[param] / (background + 1e-10) > threshold, on twice the
\* background.
Exceeds(value, bg2, threshold) ==
    2 * value * threshold[2] > threshold[1] * bg2

\* Lines 247-259: the anomaly score of row k; a row without background
\* (line 256) adds nothing.
anomaly_score(bg, k) ==
    Cardinality({param \in SwisParams :
        /\ k \in DOMAIN bg[param]
        /\ Exceeds(df_row(k)[param], bg[param][k], cme_threshold(param))})

MaxOf(S) == CHOOSE x \in S : \A y \in S : y <= x

long_enough_always(seconds) == TRUE

long_enough_hours(seconds) == seconds >= 3600 * 30

\* Line 269: duration_minutes >= self.cme_thresholds['minimum_duration_minutes'].
long_enough(seconds) == seconds >= 60 * minimum_duration_minutes

\* Lines 247-279: the body of the loop for row k.
ScanRow(bg, st, k) ==
    LET score_k == anomaly_score(bg, k)
        seconds == timestamp(k) - timestamp(st.event_start)
        rows == st.event_start..(k - 1)
        event == [start_time |-> timestamp(st.event_start),
                  end_time |-> timestamp(k),
                  duration_minutes |-> <<seconds, 60>>,
                  max_proton_density |-> MaxOf({df_row(j).proton_density : j \in rows}),
                  max_proton_speed |-> MaxOf({df_row(j).proton_bulk_speed : j \in rows}),
                  max_alpha_ratio |-> MaxOf({df_row(j).alpha_proton_ratio : j \in rows}),
                  event_strength |-> score_k]
    IN  IF score_k >= 2 /\ ~st.in_event
        THEN [st EXCEPT !.in_event = TRUE, !.event_start = k]
        ELSE IF score_k < 2 /\ st.in_event
        THEN [in_event |-> FALSE, event_start |-> st.event_start,
              events |-> IF long_enough(seconds)
                         THEN Append(st.events, event) ELSE st.events]
        ELSE st

\* Line 246: for i, row in df.iterrows(), over the rows lo..hi, taken in
\* eight consecutive parts.
RECURSIVE ScanRows(_, _, _, _)
ScanRows(bg, st, lo, hi) ==
    IF hi - lo < 8
    THEN LET r1 == IF lo <= hi THEN ScanRow(bg, st, lo) ELSE st
             r2 == IF lo + 1 <= hi THEN ScanRow(bg, r1, lo + 1) ELSE r1
             r3 == IF lo + 2 <= hi THEN ScanRow(bg, r2, lo + 2) ELSE r2
             r4 == IF lo + 3 <= hi THEN ScanRow(bg, r3, lo + 3) ELSE r3
             r5 == IF lo + 4 <= hi THEN ScanRow(bg, r4, lo + 4) ELSE r4
             r6 == IF lo + 5 <= hi THEN ScanRow(bg, r5, lo + 5) ELSE r5
             r7 == IF lo + 6 <= hi THEN ScanRow(bg, r6, lo + 6) ELSE r6
             r8 == IF lo + 7 <= hi THEN ScanRow(bg, r7, lo + 7) ELSE r7
         IN  IF r1 # <<>> /\ r2 # <<>> /\ r3 # <<>> /\ r4 # <<>> /\ r5 # <<>> /\ r6 # <<>>
                /\ r7 # <<>>
             THEN r8 ELSE st
    ELSE LET step == (hi - lo) \div 8 + 1
             s1 == ScanRows(bg, st, lo, IF lo + step - 1 < hi THEN lo + step - 1 ELSE hi)
             s2 == ScanRows(bg, s1, lo + step, IF lo + 2 * step - 1 < hi THEN lo + 2 * step - 1 ELSE hi)
             s3 == ScanRows(bg, s2, lo + 2 * step, IF lo + 3 * step - 1 < hi THEN lo + 3 * step - 1 ELSE hi)
             s4 == ScanRows(bg, s3, lo + 3 * step, IF lo + 4 * step - 1 < hi THEN lo + 4 * step - 1 ELSE hi)
             s5 == ScanRows(bg, s4, lo + 4 * step, IF lo + 5 * step - 1 < hi THEN lo + 5 * step - 1 ELSE hi)
             s6 == ScanRows(bg, s5, lo + 5 * step, IF lo + 6 * step - 1 < hi THEN lo + 6 * step - 1 ELSE hi)
             s7 == ScanRows(bg, s6, lo + 6 * step, IF lo + 7 * step - 1 < hi THEN lo + 7 * step - 1 ELSE hi)
         IN  IF s1 # <<>> /\ s2 # <<>> /\ s3 # <<>> /\ s4 # <<>> /\ s5 # <<>> /\ s6 # <<>>
                /\ s7 # <<>>
             THEN ScanRows(bg, s7, lo + 7 * step, hi) ELSE st

\* Lines 225-281: detect_cme_candidates(df).
DetectCmeCandidates ==
    /\ pc = "candidates"
    /\ IF swis_len < min_rows
       THEN /\ candidates' = <<>>
            /\ UNCHANGED background
       ELSE /\ background' = calculate_background_levels
            /\ candidates' =
                   ScanRows(background',
                            [in_event |-> FALSE, event_start |-> 0, events |-> <<>>],
                            1, swis_len).events
    /\ pc' = "candidates_returned"
    /\ UNCHANGED <<swis_len, swis_cells>>
    /\ UNCHANGED <<analysisVars, sigmaVars, eventVars, isolationVars, mainVars, twiceVars, deriveVars, backgroundVars,
                   validateVars, mergeVars, finalVars, detectVars, metricVars>>

\* The rows of a frame that differ from the quiet wind: a density at twice
\* the quiet one or above it, a fast wind, and a gap in the sampling.
FreeCells ==
    {[proton_density |-> c[1], proton_bulk_speed |-> c[2], proton_thermal_speed |-> 30,
      alpha_proton_ratio |-> 4, gap_after |-> g] :
        c \in {<<5, 400>>, <<10, 700>>, <<12, 700>>}, g \in {5, 1800}}

\* A frame too short to be analysed, one too short for a background, and one
\* with MaxFree rows that have a background.
InitCandidates ==
    /\ AnalysisIdle
    /\ SigmaIdle
    /\ EventsIdle
    /\ IsolationIdle
    /\ MainIdle
    /\ TwiceIdle
    /\ DeriveIdle
    /\ BackgroundIdle
    /\ ValidateIdle
    /\ MetricsIdle
    /\ MergeIdle
    /\ DetectIdle
    /\ FinalIdle
    /\ \/ /\ swis_len \in {min_rows - 1, min_rows}
          /\ swis_cells = <<>>
       \/ /\ swis_len = window_size + MaxFree - 1
          /\ swis_cells \in [1..MaxFree -> FreeCells]
    /\ background = <<>>
    /\ candidates = <<>>
    /\ pc = "candidates"

NextCandidates == DetectCmeCandidates

SpecCandidates == InitCandidates /\ [][NextCandidates]_vars

-----------------------------------------------------------------------------
(* detect_events, preprocessing_cdf_file.py lines 528-568.  Times are in     *)
(* seconds.                                                                  *)

\* Lines 545 and 559-565: the columns the call reads.
ColumnsRead(detect_var) ==
    {"time", detect_var, "proton_bulk_speed", "distance", "P_dyn"}

\* Line 545: the columns whose absence is checked.
columns_checked(detect_var) == {"time", detect_var}

\* Lines 548-553: the condition of a cell; a NaN is neither above nor below.
\* Called with 'above' or 'below' only.
condition(value, threshold, comparison) ==
    /\ value # NaN
    /\ IF comparison = "above" THEN value > threshold ELSE value < threshold

\* Line 556: (condition != condition.shift()).cumsum() at row k; the first row
\* differs from the NaN that shift() puts before it.
event_id(cond, k) ==
    Cardinality({j \in 1..k : j = 1 \/ cond[j] # cond[j - 1]})

RECURSIVE SumSpeeds(_, _)
SumSpeeds(rows, S) ==
    IF S = {} THEN 0
    ELSE LET j == CHOOSE x \in S : TRUE
         IN  rows[j].proton_bulk_speed + SumSpeeds(rows, S \ {j})

\* Lines 558-566: the aggregate of the rows S of one event_id.
agg(rows, id, S) ==
    LET times == {rows[j].time : j \in S}
        first == CHOOSE j \in S : \A x \in S : j <= x
        earliest == CHOOSE t \in times : \A x \in times : t <= x
        latest == CHOOSE t \in times : \A x \in times : x <= t
    IN  [event_id |-> id,
         start_time |-> earliest,
         end_time |-> latest,
         duration |-> latest - earliest,
         average_speed |-> <<SumSpeeds(rows, S), Cardinality(S)>>,
         first_speed |-> rows[first].proton_bulk_speed,
         first_distance |-> rows[first].distance,
         max_P_dyn |-> MaxOf({rows[j].P_dyn : j \in S})]

\* The members of the set of numbers S in increasing order.
Ascending(S) ==
    [j \in 1..Cardinality(S) |-> CHOOSE x \in S : Cardinality({y \in S : y < x}) = j - 1]

\* Lines 528-568: detect_events(df, detect_var, threshold, min_duration,
\* comparison).  groupby().agg() raises KeyError for a column that is not in
\* the frame, whatever the rows.
detect_events(frame, detect_var, threshold, min_duration, comparison) ==
    IF columns_checked(detect_var) \ frame.columns # {}
    THEN [error |-> "ValueError", events |-> <<>>]
    ELSE IF comparison \notin {"above", "below"}
    THEN [error |-> "ValueError", events |-> <<>>]
    ELSE IF ColumnsRead(detect_var) \ frame.columns # {}
    THEN [error |-> "KeyError", events |-> <<>>]
    ELSE LET rows == frame.rows
             cond == [k \in DOMAIN rows |-> condition(rows[k][detect_var], threshold, comparison)]
             ids == Ascending({event_id(cond, k) : k \in {x \in DOMAIN rows : cond[x]}})
             events == [j \in DOMAIN ids |->
                           agg(rows, ids[j],
                               {k \in DOMAIN rows : cond[k] /\ event_id(cond, k) = ids[j]})]
         IN  [error |-> "none",
              events |-> SelectSeq(events, LAMBDA ev : ev.duration >= min_duration)]

DetectEvents ==
    /\ pc = "detect_events"
    /\ LET out == detect_events(events_df, events_args.detect_var, events_args.threshold,
                                events_args.min_duration, events_args.comparison)
       IN  /\ events_out' = out.events
           /\ events_error' = out.error
    /\ pc' = "detect_events_done"
    /\ UNCHANGED <<events_df, events_args>>
    /\ UNCHANGED <<analysisVars, sigmaVars, candidateVars, isolationVars, mainVars, twiceVars, deriveVars,
                   backgroundVars, validateVars, mergeVars, finalVars, detectVars, metricVars>>

\* The rows of a frame sampled every 5 minutes: the two detection variables
\* take a value on either side of the threshold 2, or NaN.
EventRows(n) ==
    {[k \in 1..n |->
        [time |-> 300 * (k - 1), alpha_to_proton_ratio |-> v[k], P_dyn |-> Len(v) + 1 - k,
         proton_bulk_speed |-> 400 + 10 * k, distance |-> 100 + k]] :
     v \in [1..n -> {1, 3, NaN}]}

\* The frame has every column read, or lacks one of them.
InitEvents ==
    /\ AnalysisIdle
    /\ SigmaIdle
    /\ CandidateIdle
    /\ IsolationIdle
    /\ MainIdle
    /\ TwiceIdle
    /\ DeriveIdle
    /\ BackgroundIdle
    /\ ValidateIdle
    /\ MetricsIdle
    /\ MergeIdle
    /\ DetectIdle
    /\ FinalIdle
    /\ \E n \in 0..MaxSamples, var \in {"alpha_to_proton_ratio", "P_dyn"} :
          \E rows \in EventRows(n), absent \in {{}} \cup {{c} : c \in ColumnsRead(var)} :
             /\ events_df = [columns |-> ColumnsRead(var) \ absent, rows |-> rows]
             /\ \E d \in {0, 300, 600}, c \in {"above", "below", "between"} :
                   events_args = [detect_var |-> var, threshold |-> 2, min_duration |-> d,
                                  comparison |-> c]
    /\ events_out = <<>>
    /\ events_error = "none"
    /\ pc = "detect_events"

NextEvents == DetectEvents

SpecEvents == InitEvents /\ [][NextEvents]_vars

-----------------------------------------------------------------------------
(* ThresholdOptimizer: calculate_background_statistics (the stats_dict of    *)
(* lines 98-109), optimize_thresholds_statistical (lines 116-150),           *)
(* _extract_sigma_thresholds (268-279) and _apply_thresholds_and_detect      *)
(* (281-309), for the swepam frame.  A mean is held as the sum and the count *)
(* of the values, a standard deviation as count * sum of squares - sum^2,    *)
(* and a sigma level as four times its value.                                *)

\* Line 60: the parameters of swepam.
swepam_params == <<"Bulk_Speed", "Proton_Density", "Ion_Temperature">>

\* The sum of the column over the rows lo..hi, by halves.
RECURSIVE SumParam(_, _, _, _, _)
SumParam(rows, param, lo, hi, square) ==
    IF lo > hi THEN 0
    ELSE IF lo = hi
    THEN (IF square THEN rows[lo][param] * rows[lo][param] ELSE rows[lo][param])
    ELSE SumParam(rows, param, lo, (lo + hi) \div 2, square)
         + SumParam(rows, param, (lo + hi) \div 2 + 1, hi, square)

\* Lines 98-107: mean, std and missing_count of a parameter.
param_stats(rows, param) ==
    LET n == Len(rows)
        sum == SumParam(rows, param, 1, n, FALSE)
    IN  [count |-> n, sum |-> sum,
         spread |-> n * SumParam(rows, param, 1, n, TRUE) - sum * sum,
         missing_count |-> Cardinality({k \in 1..n : rows[k][param] = NaN})]

\* Lines 59-109: the statistics of the parameters that are columns of the
\* frame with more than 100 values.
CalculateBackgroundStatistics ==
    /\ pc = "sigma_stats"
    /\ background_stats' =
           LET kept == {x \in 1..Len(swepam_params) :
                           /\ swepam_params[x] \in sigma_df.columns
                           /\ Len(sigma_df.rows) > bg_min_valid}
           IN  [param \in {swepam_params[x] : x \in kept} |-> param_stats(sigma_df.rows, param)]
    /\ pc' = "sigma_optimize"
    /\ UNCHANGED <<sigma_df, optimal_thresholds, sigma_todo, sigma_detections>>
    /\ UNCHANGED <<analysisVars, eventVars, candidateVars, isolationVars, mainVars, twiceVars, deriveVars,
                   backgroundVars, validateVars, mergeVars, finalVars, detectVars, metricVars>>

\* Line 116: sigma_levels = [1.5, 2, 2.5, 3], each doubled.
sigma_levels == <<3, 4, 5, 6>>

\* Lines 132-136: four times sigma * adjustment_factor.
adjusted_sigma(sigma2, stats) ==
    sigma2 * (IF 10 * stats.missing_count < 3 * stats.count THEN 2 ELSE 3)

\* Lines 137 and 141: mean + adjusted_sigma * std, kept as its terms.
upper_threshold(sigma2, stats) ==
    [count |-> stats.count, sum |-> stats.sum, spread |-> stats.spread,
     sigma4 |-> adjusted_sigma(sigma2, stats)]

\* Lines 127-149.
OptimizeThresholdsStatistical ==
    /\ pc = "sigma_optimize"
    /\ optimal_thresholds' =
           [param \in DOMAIN background_stats |->
               [x \in DOMAIN sigma_levels |->
                   upper_threshold(sigma_levels[x], background_stats[param])]]
    /\ sigma_todo' = [x \in DOMAIN sigma_levels |-> x]
    /\ pc' = "sigma_validate"
    /\ UNCHANGED <<sigma_df, background_stats, sigma_detections>>
    /\ UNCHANGED <<analysisVars, eventVars, candidateVars, isolationVars, mainVars, twiceVars, deriveVars,
                   backgroundVars, validateVars, mergeVars, finalVars, detectVars, metricVars>>

\* Lines 268-279: the upper thresholds of one sigma level.
extract_sigma_thresholds(level) ==
    [param \in DOMAIN optimal_thresholds |-> optimal_thresholds[param][level]]

\* value >= mean + sigma * std (orEqual) or value > mean + sigma * std.
AtOrAbove(value, t, orEqual) ==
    LET d == t.count * value - t.sum
        left == 16 * d * d * (t.count - 1)
        right == t.sigma4 * t.sigma4 * t.spread * t.count
    IN  IF orEqual THEN d >= 0 /\ left >= right ELSE d > 0 /\ left > right

\* Lines 297-298: 'temp' in param.lower(): df[param] < threshold.
temperature_flag(value, t) == ~AtOrAbove(value, t, TRUE)

\* Lines 293-298: the flag one parameter adds to a row.
param_flag(param, value, t) ==
    IF param \in {"Bulk_Speed", "Proton_Density"}
    THEN AtOrAbove(value, t, FALSE)
    ELSE IF param = "Ion_Temperature"
    THEN temperature_flag(value, t)
    ELSE FALSE

\* Lines 281-309: _apply_thresholds_and_detect(thresholds), the detections
\* as <<detection_time, instrument>>.
apply_thresholds_and_detect(thresholds) ==
    IF Len(sigma_df.rows) = 0 THEN {}
    ELSE {<<k, "swepam">> : k \in
            {k \in 1..Len(sigma_df.rows) :
                \E param \in DOMAIN thresholds :
                   /\ param \in sigma_df.columns
                   /\ param_flag(param, sigma_df.rows[k][param], thresholds[param])}}

\* Lines 248-250: one threshold set of validate_detection_performance.
TestThresholdSet ==
    /\ pc = "sigma_validate"
    /\ sigma_todo # <<>>
    /\ LET level == Head(sigma_todo)
       IN  sigma_detections' =
               [x \in DOMAIN sigma_detections \cup {level} |->
                   IF x = level THEN apply_thresholds_and_detect(extract_sigma_thresholds(level))
                   ELSE sigma_detections[x]]
    /\ sigma_todo' = Tail(sigma_todo)
    /\ UNCHANGED <<sigma_df, background_stats, optimal_thresholds, pc>>
    /\ UNCHANGED <<analysisVars, eventVars, candidateVars, isolationVars, mainVars, twiceVars, deriveVars,
                   backgroundVars, validateVars, mergeVars, finalVars, detectVars, metricVars>>

\* Lines 265-266.
ValidationReturn ==
    /\ pc = "sigma_validate"
    /\ sigma_todo = <<>>
    /\ pc' = "sigma_done"
    /\ UNCHANGED <<analysisVars, sigmaVars, eventVars, candidateVars, isolationVars, mainVars, twiceVars,
                   deriveVars, backgroundVars, validateVars, mergeVars, finalVars, detectVars,
                   metricVars>>

\* A quiet wind of bg_min_valid rows followed by up to MaxHot rows that may
\* be faster, denser, warmer or much hotter; the frame has all three columns
\* or lacks Ion_Temperature.
HotCells ==
    [Bulk_Speed : {10, 20}, Proton_Density : {10, 20}, Ion_Temperature : {10, 12, 20}]

InitSigma ==
    /\ AnalysisIdle
    /\ EventsIdle
    /\ CandidateIdle
    /\ IsolationIdle
    /\ MainIdle
    /\ TwiceIdle
    /\ DeriveIdle
    /\ BackgroundIdle
    /\ ValidateIdle
    /\ MetricsIdle
    /\ MergeIdle
    /\ DetectIdle
    /\ FinalIdle
    /\ \E n \in 1..MaxHot : \E hot \in [1..n -> HotCells] :
          \E columns \in {{"Bulk_Speed", "Proton_Density", "Ion_Temperature"},
                          {"Bulk_Speed", "Proton_Density"}} :
             sigma_df = [columns |-> columns,
                         rows |-> [k \in 1..(bg_min_valid + n) |->
                                      IF k <= bg_min_valid
                                      THEN [Bulk_Speed |-> 10, Proton_Density |-> 10,
                                            Ion_Temperature |-> 10]
                                      ELSE hot[k - bg_min_valid]]]
    /\ background_stats = <<>>
    /\ optimal_thresholds = <<>>
    /\ sigma_todo = <<>>
    /\ sigma_detections = <<>>
    /\ pc = "sigma_stats"

NextSigma ==
    \/ CalculateBackgroundStatistics
    \/ OptimizeThresholdsStatistical
    \/ TestThresholdSet
    \/ ValidationReturn

SpecSigma == InitSigma /\ [][NextSigma]_vars

-----------------------------------------------------------------------------
(* CMEDetectionSystem.run_full_analysis, lines 631-649, with                 *)
(* plot_detection_overview, lines 460-552, and generate_report, 554-629.     *)
(* A processed frame is held by its datetime column.                         *)

\* Lines 636-639: load_data, preprocess_data, derive_features and
\* composite_cme_detection, each of which catches the exceptions of its
\* instruments; they leave self.processed_data and self.detection_results.
\* An instrument has detection results only if its processed frame has rows;
\* an instrument whose detection failed, or whose frame is empty, has none.
RunDetectionSteps ==
    /\ pc = "run_full_analysis"
    /\ \E n \in 0..MaxDet : \E f \in [1..n -> DetectionRows] :
          /\ RowsInOrder(f)
          /\ LET found == {f[k].instrument : k \in 1..n}
             IN  /\ detection_results' = [inst \in found |-> FrameOf(f, inst)]
                 /\ \E others \in SUBSET ({"mag", "sis"} \ found) :
                       \E frames \in [others -> {<<>>, <<[datetime |-> 0]>>}] :
                          processed_data' =
                              [inst \in found \cup others |->
                                  IF inst \in found
                                  THEN [k \in 1..Len(FrameOf(f, inst)) |->
                                           [datetime |-> FrameOf(f, inst)[k].datetime]]
                                  ELSE frames[inst]]
    /\ pc' = "merge"
    /\ UNCHANGED <<combined_events, merged_events, window_log, i, merge_result,
                   detect_todo, all_detections>>
    /\ UNCHANGED <<analysisVars, sigmaVars, eventVars, candidateVars, isolationVars, mainVars,
                   twiceVars, deriveVars, backgroundVars, validateVars, finalVars, metricVars>>

\* Line 533: self.merge_detections() called once more by the plot; the
\* detection results are those of the first call (lines 392-395 work on
\* copies), and so is the table: None, the empty table, or the events with
\* the fields of lines 417-425.
plot_merged_events ==
    IF DOMAIN detection_results = {} THEN [kind |-> "None", rows |-> <<>>]
    ELSE IF ConcatAll(DOMAIN detection_results) = <<>> THEN [kind |-> "empty", rows |-> <<>>]
    ELSE [kind |-> "frame", rows |-> merged_events]

\* Lines 464-550: the exception plot_detection_overview raises, or "none".
\* With one instrument subplots() returns the array of both axes, which line
\* 470 wraps in a list: axes[0] and axes[-1] are the array, not an Axes.
plot_detection_overview ==
    LET merged == plot_merged_events
    IN  IF DOMAIN processed_data = {} THEN "none"
        ELSE IF Cardinality(DOMAIN processed_data) = 1 THEN "AttributeError"
        ELSE IF merged.kind = "None" THEN "AttributeError"
        ELSE IF \E k \in DOMAIN merged.rows : "classification" \notin DOMAIN merged.rows[k]
        THEN "KeyError"
        ELSE "none"

\* Line 642, and lines 647-649 when the plot raises.
PlotDetectionOverview ==
    /\ pc = "validated"
    /\ IF plot_detection_overview = "none"
       THEN /\ figure_saved' = (DOMAIN processed_data # {})
            /\ pc' = "plotted"
            /\ UNCHANGED analysis_result
       ELSE /\ analysis_result' = plot_detection_overview
            /\ pc' = "analysis_raised"
            /\ UNCHANGED figure_saved
    /\ UNCHANGED report_written
    /\ UNCHANGED <<sigmaVars, eventVars, candidateVars, isolationVars, mainVars, twiceVars,
                   deriveVars, backgroundVars, validateVars, mergeVars, finalVars, detectVars,
                   metricVars>>

\* Lines 643-645: generate_report(valid_events), then return valid_events.
GenerateReport ==
    /\ pc = "plotted"
    /\ report_written' = TRUE
    /\ analysis_result' = "valid_events"
    /\ pc' = "analysis_returned"
    /\ UNCHANGED figure_saved
    /\ UNCHANGED <<sigmaVars, eventVars, candidateVars, isolationVars, mainVars, twiceVars,
                   deriveVars, backgroundVars, validateVars, mergeVars, finalVars, detectVars,
                   metricVars>>

InitAnalysis ==
    /\ AnalysisIdle
    /\ SigmaIdle
    /\ EventsIdle
    /\ CandidateIdle
    /\ IsolationIdle
    /\ MainIdle
    /\ TwiceIdle
    /\ DeriveIdle
    /\ BackgroundIdle
    /\ ValidateIdle
    /\ MetricsIdle
    /\ MergeIdle
    /\ DetectIdle
    /\ FinalIdle
    /\ pc = "run_full_analysis"

NextAnalysis ==
    \/ RunDetectionSteps
    \/ MergeStart
    \/ MergeLoop
    \/ MergeReturn
    \/ CallValidate
    \/ ValidateCmeEvents
    \/ PlotDetectionOverview
    \/ GenerateReport

SpecAnalysis == InitAnalysis /\ [][NextAnalysis]_vars

-----------------------------------------------------------------------------
(* Properties of merge_detections *)

Merged == pc = "merged" /\ merge_result = "frame"

NumDetected ==
    LET S == DOMAIN detection_results
    IN  Cardinality({<<inst, k>> \in S \X (1..MaxDet + 1) :
            /\ k <= Len(detection_results[inst])
            /\ detection_results[inst][k].cme_detected = "True"})

\* C1: merge_detections partitions the detections: every detected row is
\* among the merged rows and lies in the window of exactly one event, the
\* events come in strictly increasing start_time order, and the ranges
\* [start_time, end_time] of two different events do not overlap.
C1_Partition ==
    Merged =>
        /\ Len(combined_events) = NumDetected
        /\ \A k \in 1..Len(combined_events) :
               Cardinality({e \in 1..Len(window_log) : k \in window_log[e]}) = 1
        /\ \A e \in 1..(Len(merged_events) - 1) :
               merged_events[e].start_time < merged_events[e + 1].start_time
        /\ \A e, g \in 1..Len(merged_events) :
               e # g =>
                   \/ merged_events[e].end_time < merged_events[g].start_time
                   \/ merged_events[g].end_time < merged_events[e].start_time

\* C1 witness: a merge of three detections, two of them at the same time
\* and from different instruments, that ended in two events.
C1_Witness ==
    /\ Merged
    /\ Len(combined_events) = 3
    /\ Len(merged_events) = 2
    /\ \E k \in 1..2 :
           /\ combined_events[k].datetime = combined_events[k + 1].datetime
           /\ combined_events[k].source_instrument #
                  combined_events[k + 1].source_instrument

IsChain(ce) ==
    \A k \in 1..(Len(ce) - 1) : ce[k + 1].datetime - ce[k].datetime <= time_window

Span(ce) == ce[Len(ce)].datetime - ce[1].datetime

\* C2 (as claimed): the merger chains greedily, so a list in which each
\* detection lies within W of the previous one and whose span exceeds W
\* comes back as a single event longer than W.
C2_ChainsGreedily ==
    (Merged /\ IsChain(combined_events) /\ Span(combined_events) > 120) =>
        /\ Len(merged_events) = 1
        /\ merged_events[1].end_time - merged_events[1].start_time > 120

\* C2 (amended): the merger does not chain. No event is longer than the
\* window W = 2 h, and a list in which each detection lies within W of the
\* previous one and whose span exceeds W comes back as two or more events.
C2_NoChaining ==
    Merged =>
        /\ \A e \in 1..Len(merged_events) :
               /\ merged_events[e].end_time - merged_events[e].start_time <= 120
               /\ RatLeq(merged_events[e].duration_hours, <<2, 1>>)
        /\ (IsChain(combined_events) /\ Span(combined_events) > 120) =>
               Len(merged_events) >= 2

\* C2 witness: a chain of three detections, each within W of the previous
\* one, spanning more than W, merged into two events.
C2_Witness ==
    /\ Merged
    /\ Len(combined_events) = 3
    /\ IsChain(combined_events)
    /\ Span(combined_events) > 120
    /\ Len(merged_events) = 2

\* The first position of event e: one past the detections of the events
\* before it.
FirstOf(e) ==
    Cardinality(UNION {window_log[g] : g \in 1..(e - 1)}) + 1

\* C3: a detection is in the event of the first unabsorbed detection t
\* exactly when its time is in [t, t + 2 h], both ends included, and the
\* first detection later than t + 2 h starts the next event; detections at
\* t0, t0 + 30 min and t0 + 3 h give the two events {t0, t0 + 30 min} and
\* {t0 + 3 h}.
C3_Window ==
    Merged =>
        /\ \A e \in 1..Len(merged_events) :
               LET t == combined_events[FirstOf(e)].datetime
                   later == {k \in 1..Len(combined_events) :
                                combined_events[k].datetime > t + 120}
               IN  /\ merged_events[e].start_time = t
                   /\ window_log[e] =
                          {k \in 1..Len(combined_events) :
                              combined_events[k].datetime \in t..(t + 120)}
                   /\ IF later = {}
                      THEN e = Len(merged_events)
                      ELSE /\ e < Len(merged_events)
                           /\ FirstOf(e + 1) = SetMin(later)
        /\ \A t0 \in Times :
               [k \in 1..Len(combined_events) |-> combined_events[k].datetime]
                   = <<t0, t0 + 30, t0 + 180>>
               => /\ window_log = <<{1, 2}, {3}>>
                  /\ Len(merged_events) = 2
                  /\ merged_events[1].start_time = t0
                  /\ merged_events[1].end_time = t0 + 30
                  /\ merged_events[2].start_time = t0 + 180
                  /\ merged_events[2].end_time = t0 + 180

\* C3 witness: the merge of detections at t0, t0 + 30 min and t0 + 3 h.
C3_Witness ==
    /\ Merged
    /\ [k \in 1..Len(combined_events) |-> combined_events[k].datetime]
           = <<0, 30, 180>>

\* A second C3 case: a detection exactly 2 h after the first one.
C3_WitnessEdge ==
    /\ Merged
    /\ Len(combined_events) >= 2
    /\ combined_events[2].datetime = combined_events[1].datetime + 120

-----------------------------------------------------------------------------
(* Properties of calculate_cme_score *)

Scored == pc = "scored"

\* C4: every element of the score is in [0, 1]: the alpha and the speed
\* contribution are each in [0, 0.4], the temperature and the quality
\* contribution each in [0, 0.1], and the score is their sum, at most 1 (all
\* in thousandths), whatever the inputs are (valid, fill-valued, not finite,
\* zero or negative).
C4_ScoreBounded ==
    Scored =>
        /\ Len(score) = Len(proton_density)
        /\ \A k \in 1..Len(score) :
              /\ score_terms[k].alpha \in 0..400
              /\ score_terms[k].speed \in 0..400
              /\ score_terms[k].temp \in 0..100
              /\ score_terms[k].quality \in 0..100
              /\ score[k] = score_terms[k].alpha + score_terms[k].speed
                                + score_terms[k].temp + score_terms[k].quality
              /\ score[k] \in 0..1000

\* C4 witness: an element that gets the full score 1, every contribution at
\* its upper end.
C4_Witness ==
    /\ Scored
    /\ Len(score) = 1
    /\ score[1] = 1000
    /\ score_terms[1].alpha = 400
    /\ score_terms[1].temp = 100

\* A second C4 case: a negative density beside a fill-valued speed.
C4_WitnessInvalid ==
    /\ Scored
    /\ Len(score) = 1
    /\ proton_density[1] = -5000
    /\ proton_bulk_speed[1] = FILL_VALUE

\* C5: a parameter equal to the fill value adds 0 to its own term (density
\* and alpha to the alpha-ratio term, speed to the speed term, thermal speed
\* to the temperature term), the ratio alpha/proton is evaluated only where
\* proton_density is valid and above 0, and an element whose four inputs are
\* all the fill value has the score 0.
C5_FillContributesZero ==
    Scored =>
        \A k \in 1..Len(score) :
            /\ proton_density[k] = FILL_VALUE => score_terms[k].alpha = 0
            /\ alpha_density[k] = FILL_VALUE => score_terms[k].alpha = 0
            /\ proton_bulk_speed[k] = FILL_VALUE => score_terms[k].speed = 0
            /\ proton_thermal[k] = FILL_VALUE => score_terms[k].temp = 0
            /\ score_terms[k].divided =>
                   /\ proton_density[k] # FILL_VALUE
                   /\ IsFinite(proton_density[k])
                   /\ proton_density[k] > 0
            /\ (/\ proton_density[k] = FILL_VALUE
                /\ proton_bulk_speed[k] = FILL_VALUE
                /\ proton_thermal[k] = FILL_VALUE
                /\ alpha_density[k] = FILL_VALUE) => score[k] = 0

\* C5 witness: the score of an element whose four inputs are the fill value.
C5_Witness ==
    /\ Scored
    /\ Len(score) = 1
    /\ proton_density[1] = FILL_VALUE
    /\ proton_bulk_speed[1] = FILL_VALUE
    /\ proton_thermal[1] = FILL_VALUE
    /\ alpha_density[1] = FILL_VALUE
    /\ score[1] = 0

\* C6: an invalid input takes away only its own contribution: the speed
\* contribution of an element is the one the same element gets with its
\* proton_density, its alpha_density or its proton_thermal replaced by a
\* value of the other validity.
C6_SpeedTermIndependent ==
    Scored =>
        \A k \in 1..Len(score) :
            /\ \A pd2 \in ScoreDensities :
                   Valid(pd2) # Valid(proton_density[k]) =>
                       ScoreTerms(pd2, proton_bulk_speed[k], proton_thermal[k],
                                  alpha_density[k]).speed = score_terms[k].speed
            /\ \A a2 \in ScoreAlphas :
                   Valid(a2) # Valid(alpha_density[k]) =>
                       ScoreTerms(proton_density[k], proton_bulk_speed[k],
                                  proton_thermal[k], a2).speed = score_terms[k].speed
            /\ \A t2 \in ScoreThermals :
                   Valid(t2) # Valid(proton_thermal[k]) =>
                       ScoreTerms(proton_density[k], proton_bulk_speed[k],
                                  t2, alpha_density[k]).speed = score_terms[k].speed

-----------------------------------------------------------------------------
(* Properties of detect_cme_speed_signatures and detect_cme_thresholds *)

Flagged == pc = "flagged"

\* C7: a fill value never makes a flag true: rapid_increases[k] is false
\* when speed[k] or speed[k-1] is the fill value, accelerations[k] is false
\* when speed[k], speed[k-1] or speed[k-2] is, and alpha_flag, speed_flag
\* and temp_flag are false where one of their inputs is the fill value.
C7_FillNeverFlags ==
    Flagged =>
        \A k \in 1..Len(proton_bulk_speed) :
            LET near == {j \in {k - 1, k} : j >= 1}
                back == {j \in {k - 2, k - 1, k} : j >= 1}
            IN  /\ (\E j \in near : proton_bulk_speed[j] = FILL_VALUE) =>
                       ~signatures.rapid_increases[k]
                /\ (\E j \in back : proton_bulk_speed[j] = FILL_VALUE) =>
                       ~signatures.accelerations[k]
                /\ (alpha_density[k] = FILL_VALUE \/ proton_density[k] = FILL_VALUE) =>
                       ~threshold_flags.alpha_flag[k]
                /\ proton_bulk_speed[k] = FILL_VALUE => ~threshold_flags.speed_flag[k]
                /\ (proton_bulk_speed[k] = FILL_VALUE \/ proton_thermal[k] = FILL_VALUE) =>
                       ~threshold_flags.temp_flag[k]

\* C8: alpha_flag[k] is true exactly when alpha_density[k] and
\* proton_density[k] are valid, proton_density[k] > 0 and their ratio is
\* above 0.08; where proton_density[k] <= 0 the flag is false.
C8_AlphaFlag ==
    Flagged =>
        \A k \in 1..Len(alpha_density) :
            /\ threshold_flags.alpha_flag[k] <=>
                   /\ Valid(alpha_density[k])
                   /\ Valid(proton_density[k])
                   /\ proton_density[k] > 0
                   /\ 100 * alpha_density[k] > 8 * proton_density[k]
            /\ (IsFinite(proton_density[k]) /\ proton_density[k] <= 0) =>
                   ~threshold_flags.alpha_flag[k]


-----------------------------------------------------------------------------
(* Properties of composite_cme_detection *)

Detected == pc = "detected"

\* The value a detect_* series holds at timestamp t.
FlagAt(series, t) ==
    \E j \in 1..Len(series) :
        series[j].label = DatetimeLabel(t) /\ series[j].value = "True"

\* What the signatures of an instrument's frame ask of cme_detected at row k:
\* two of three for swepam, the single signature for the others.
ExpectedDetected(instrument, frame, k) ==
    LET t == frame[k].datetime
    IN  IF instrument = "swepam"
        THEN Cardinality({c \in 1..3 :
                 FlagAt(<<detect_speed_enhancements(frame),
                          detect_density_enhancements(frame),
                          detect_temperature_depressions(frame)>>[c], t)}) >= 2
        ELSE IF instrument = "mag"
        THEN FlagAt(detect_magnetic_field_rotations(frame), t)
        ELSE FlagAt(detect_particle_flux_enhancements(frame), t)

\* cme_detected is true in self.detection_results at row k of the instrument.
StoredDetected(instrument, k) ==
    /\ instrument \in DOMAIN detection_results
    /\ k <= Len(detection_results[instrument])
    /\ detection_results[instrument][k].datetime = processed_data[instrument][k].datetime
    /\ detection_results[instrument][k].cme_detected = "True"

\* C9: after composite_cme_detection, at every timestamp of every instrument,
\* cme_detected is true exactly when the signatures computed for that
\* timestamp say so: at least 2 of the 3 swepam flags, or the single flag of
\* mag, epam and sis.
C9_CompositeRule ==
    Detected =>
        \A instrument \in DOMAIN processed_data :
            \A k \in 1..Len(processed_data[instrument]) :
                StoredDetected(instrument, k)
                    <=> ExpectedDetected(instrument, processed_data[instrument], k)


-----------------------------------------------------------------------------
(* Properties of _calculate_validation_metrics *)

Returned == pc = "metrics_returned"

\* The distinct (time, instrument) pairs of the two frames.
DetectionPairs ==
    {<<detections[k].detection_time, detections[k].instrument>> : k \in 1..Len(detections)}

ReferencePairs ==
    {<<synthetic_events[k].start_time, synthetic_events[k].instrument>> :
        k \in 1..Len(synthetic_events)}

\* A detection and a reference of the same instrument within the tolerance.
WithinTolerance(d, s) ==
    /\ d[2] = s[2]
    /\ d[1] - s[1] <= 60 * tolerance_hours
    /\ s[1] - d[1] <= 60 * tolerance_hours

\* One detection at 10:00 and one reference at 10:30 of the same instrument,
\* tolerance 1h.
ExampleInput ==
    /\ Len(detections) = 1
    /\ Len(synthetic_events) = 1
    /\ detections[1].detection_time = 600
    /\ synthetic_events[1].start_time = 630
    /\ detections[1].instrument = synthetic_events[1].instrument
    /\ tolerance_hours = 1

\* C10: over the distinct (time, instrument) pairs, true_positives is the
\* number of reference events with a same-instrument detection within the
\* tolerance, false_negatives the number of the other reference events and
\* false_positives the number of detections with no same-instrument reference
\* within the tolerance; the example of one detection at 10:00 and one
\* reference at 10:30 with tolerance 1h gives 1, 0, 0 and precision, recall
\* and F1 of 1.
C10_ValidationCounts ==
    Returned =>
        /\ metrics.true_positives =
               Cardinality({s \in ReferencePairs :
                   \E d \in DetectionPairs : WithinTolerance(d, s)})
        /\ metrics.false_negatives =
               Cardinality({s \in ReferencePairs :
                   ~\E d \in DetectionPairs : WithinTolerance(d, s)})
        /\ metrics.false_positives =
               Cardinality({d \in DetectionPairs :
                   ~\E s \in ReferencePairs : WithinTolerance(d, s)})
        /\ ExampleInput =>
               /\ metrics.true_positives = 1
               /\ metrics.false_positives = 0
               /\ metrics.false_negatives = 0
               /\ RatEq(metrics.precision, <<1, 1>>)
               /\ RatEq(metrics.recall, <<1, 1>>)
               /\ RatEq(metrics.f1_score, <<1, 1>>)

\* The example has been computed.
C10_Witness == Returned /\ ExampleInput /\ metrics.true_positives = 1

\* A detection next to a reference of another instrument has been counted as
\* a false positive and the reference as a false negative.
C10_WitnessOtherInstrument ==
    /\ Returned
    /\ Len(detections) = 1
    /\ Len(synthetic_events) = 1
    /\ detections[1].detection_time = synthetic_events[1].start_time
    /\ detections[1].instrument # synthetic_events[1].instrument
    /\ metrics.false_positives = 1
    /\ metrics.false_negatives = 1


\* A ratio that was computed without a division by zero and lies in [0, 1].
InUnitInterval(r) == r[2] > 0 /\ 0 <= r[1] /\ r[1] <= r[2]

\* C11: _calculate_validation_metrics never divides by zero: precision is 0
\* when TP + FP = 0, recall is 0 when TP + FN = 0, F1 is 0 when precision +
\* recall = 0, and precision, recall and F1 always lie in [0, 1].
C11_NoDivisionError ==
    Returned =>
        /\ InUnitInterval(metrics.precision)
        /\ InUnitInterval(metrics.recall)
        /\ InUnitInterval(metrics.f1_score)
        /\ metrics.true_positives + metrics.false_positives = 0
               => metrics.precision[1] = 0
        /\ metrics.true_positives + metrics.false_negatives = 0
               => metrics.recall[1] = 0
        /\ (metrics.precision[1] = 0 /\ metrics.recall[1] = 0)
               => metrics.f1_score[1] = 0

\* No detection at all and a reference event: the denominators of precision
\* and of F1 are 0.
C11_Witness ==
    /\ Returned
    /\ metrics.true_positives + metrics.false_positives = 0
    /\ metrics.false_negatives > 0
    /\ metrics.f1_score[1] = 0

\* Both tables empty: all three denominators are 0.
C11_WitnessEmpty ==
    /\ Returned
    /\ detections = <<>>
    /\ synthetic_events = <<>>

-----------------------------------------------------------------------------
(* Properties of validate_cme_events *)

Validated == pc = "validated"

\* avg_confidence > n / 10.
ConfidenceAbove(row, n) == row.avg_confidence[1] * 10 > n * row.avg_confidence[2]

\* C12: every returned event has exactly one classification, by the fixed
\* rule: High Confidence iff num_instruments >= 3 and avg_confidence > 0.6;
\* otherwise Medium Confidence iff num_instruments >= 2 and avg_confidence >
\* 0.4; otherwise Low Confidence.
C12_Classification ==
    Validated =>
        \A k \in 1..Len(valid_events) :
            LET row == valid_events[k]
                high == row.num_instruments >= 3 /\ ConfidenceAbove(row, 6)
                medium == ~high /\ row.num_instruments >= 2 /\ ConfidenceAbove(row, 4)
            IN  /\ row.classification \in
                       {"High Confidence", "Medium Confidence", "Low Confidence"}
                /\ row.classification = "High Confidence" <=> high
                /\ row.classification = "Medium Confidence" <=> medium
                /\ row.classification = "Low Confidence" <=> (~high /\ ~medium)

\* Three instruments at exactly 0.6 came back as Medium, and two instruments
\* at exactly 0.4 as Low.
C12_Witness ==
    /\ Validated
    /\ \E k \in 1..Len(valid_events) :
          /\ valid_events[k].num_instruments = 3
          /\ RatEq(valid_events[k].avg_confidence, <<6, 10>>)
          /\ valid_events[k].classification = "Medium Confidence"
    /\ \E k \in 1..Len(valid_events) :
          /\ valid_events[k].num_instruments = 2
          /\ RatEq(valid_events[k].avg_confidence, <<4, 10>>)
          /\ valid_events[k].classification = "Low Confidence"

\* A High Confidence event came back.
C12_WitnessHigh ==
    /\ Validated
    /\ \E k \in 1..Len(valid_events) : valid_events[k].classification = "High Confidence"

\* The row without its classification column.
WithoutClassification(row) == [x \in DOMAIN row \ {"classification"} |-> row[x]]

\* The candidate meets the three minima.
MeetsMinima(row) ==
    /\ row.duration_hours[1] >= min_duration_hours * row.duration_hours[2]
    /\ row.num_instruments >= min_instruments
    /\ row.avg_confidence[1] * min_confidence[2] >= min_confidence[1] * row.avg_confidence[2]

\* The positions of the candidates that meet the minima.
Meeting == {k \in 1..Len(merged_events) : MeetsMinima(merged_events[k])}

\* C13: the returned events are exactly the candidates with duration_hours >=
\* min_duration_hours, num_instruments >= min_instruments and avg_confidence
\* >= min_confidence, in their original order and with their columns
\* unaltered; None or an empty table gives an empty table.
C13_Filter ==
    Validated =>
        IF merge_result = "None" \/ merged_events = <<>>
        THEN validate_result = "empty" /\ valid_events = <<>>
        ELSE /\ validate_result = "frame"
             /\ Len(valid_events) = Cardinality(Meeting)
             /\ \A k \in 1..Len(valid_events) :
                    LET src == CHOOSE j \in Meeting :
                                   Cardinality({x \in Meeting : x < j}) = k - 1
                    IN  WithoutClassification(valid_events[k]) = merged_events[src]

\* Of two candidates the first was dropped and the second came back.
C13_Witness ==
    /\ Validated
    /\ Len(merged_events) = 2
    /\ Len(valid_events) = 1
    /\ valid_events[1].start_time = merged_events[2].start_time
    /\ RatEq(valid_events[1].avg_confidence, min_confidence)

\* None came in and an empty table came back.
C13_WitnessNone == Validated /\ merge_result = "None" /\ validate_result = "empty"

-----------------------------------------------------------------------------
(* Properties of calculate_background_statistics *)

BackgroundDone == pc = "background_done"

\* C14: chunking is an optimization only: at every timestamp the five
\* background statistics equal those of the centered window taken over the
\* whole series, whatever the chunk size, also where the window crosses a
\* chunk boundary.
C14_ChunkingIsTransparent ==
    BackgroundDone =>
        /\ Len(bg_stats) = Len(param_data)
        /\ \A k \in 1..Len(bg_stats) :
               bg_stats[k] = RollingStats(param_data, 1, Len(param_data), k, window_days)

-----------------------------------------------------------------------------
(* Properties of derive_features and the detect_* functions *)

SignaturesDetected == pc = "signatures_detected"

\* The number of the values of a column within 30 minutes of row k.
ValidPoints(col, k) ==
    LET df == processed_data["swepam"]
    IN  Cardinality({j \in 1..Len(df) :
            /\ df[j].datetime - df[k].datetime <= 30
            /\ df[k].datetime - df[j].datetime < 30
            /\ df[j][col] # NaN})

\* C15: at a timestamp whose background window holds fewer than 10 valid
\* points the background (the moving average) is undefined and the flag of
\* detect_speed_enhancements, detect_density_enhancements or
\* detect_temperature_depressions is false.
C15_NoBackgroundNoFlag ==
    SignaturesDetected =>
        \A k \in 1..Len(processed_data["swepam"]) :
            LET row == processed_data["swepam"][k]
            IN  /\ ValidPoints("Bulk_Speed", k) < 10
                    => /\ row.speed_ma_1h = <<0, 0>>
                       /\ signature_flags.speed_enhancement[k].value = "False"
                /\ ValidPoints("Proton_Density", k) < 10
                    => /\ row.density_ma_1h = <<0, 0>>
                       /\ signature_flags.density_enhancement[k].value = "False"
                /\ ValidPoints("Ion_Temperature", k) < 10
                    => /\ row.temp_ma_1h = <<0, 0>>
                       /\ signature_flags.temp_depression[k].value = "False"

\* Row 2 has a spike of all three parameters and no background, row 4 has a
\* density spike and nine valid densities around it, and the spike of row 103
\* has raised the three flags there.
C15_Witness ==
    /\ SignaturesDetected
    /\ processed_data["swepam"][2].Bulk_Speed = 1060
    /\ processed_data["swepam"][2].Ion_Temperature = 40
    /\ processed_data["swepam"][2].Proton_Density = NaN
    /\ processed_data["swepam"][4].Proton_Density = 20
    /\ ValidPoints("Proton_Density", 4) = 9
    /\ signature_flags.density_enhancement[4].value = "False"
    /\ signature_flags.speed_enhancement[103].value = "True"
    /\ signature_flags.density_enhancement[103].value = "True"
    /\ signature_flags.temp_depression[103].value = "True"

\* A spike of the three parameters at row 2, where there is no background.
C15_WitnessEdge ==
    /\ SignaturesDetected
    /\ processed_data["swepam"][2].Bulk_Speed = 1060
    /\ processed_data["swepam"][2].Proton_Density = 20
    /\ processed_data["swepam"][2].Ion_Temperature = 40
    /\ ValidPoints("Bulk_Speed", 2) = 8
    /\ signature_flags.speed_enhancement[2].value = "False"

-----------------------------------------------------------------------------
(* Properties of the lengths of detect_cme_speed_signatures *)

SignaturesReturned == pc \in {"thresholds", "flagged"}

\* C16: the four arrays detect_cme_speed_signatures returns have the length
\* of its input, for the lengths 0 and 1 as well; element 0 of the first and
\* of the second difference is 0, so rapid_increases[0] and accelerations[0]
\* are false.
C16_SameLength ==
    SignaturesReturned =>
        LET n == Len(proton_bulk_speed)
        IN  /\ Len(signatures.enhancement_scores) = n
            /\ Len(signatures.rapid_increases) = n
            /\ Len(signatures.accelerations) = n
            /\ Len(signatures.acceleration_changes) = n
            /\ n >= 1 =>
                   /\ signatures.acceleration_changes[1] = 0
                   /\ signatures.rapid_increases[1] = FALSE
                   /\ signatures.accelerations[1] = FALSE

\* A single speed of 600 km/s went in and four arrays of length 1 came back.
C16_Witness ==
    /\ SignaturesReturned
    /\ proton_bulk_speed = <<600>>
    /\ Len(signatures.enhancement_scores) = 1
    /\ signatures.enhancement_scores[1] > 0

\* The empty array went in.
C16_WitnessEmpty == SignaturesReturned /\ proton_bulk_speed = <<>>

-----------------------------------------------------------------------------
(* Properties of merge_detections called twice *)

SecondReturned == pc = "merged" /\ merge_calls = 1

\* C17: merge_detections is a function of the stored detection results: a
\* second call in a row returns the event sequence of the first, and no call
\* changes a row or a column of self.detection_results.
C17_MergeIsPure ==
    /\ detection_results = results_before
    /\ SecondReturned =>
           /\ merge_result = first_result.result
           /\ merged_events = first_result.events

\* The second call has returned two events, as the first did, from detections
\* of which two are at the same time.
C17_Witness ==
    /\ SecondReturned
    /\ Len(first_result.events) = 2
    /\ Len(merged_events) = 2
    /\ \E a, b \in 1..Len(combined_events) :
          a # b /\ combined_events[a].datetime = combined_events[b].datetime

\* The second call has returned None, as the first did.
C17_WitnessNone == SecondReturned /\ merge_result = "None"

-----------------------------------------------------------------------------
(* Properties of the aggregate functions on zero-length input *)

\* C18: on empty inputs calculate_cme_score and detect_cme_thresholds return
\* empty arrays, and _calculate_validation_metrics with an empty detection
\* table returns no true and no false positive, every distinct reference
\* event as a false negative, and precision, recall and F1 of 0, with no
\* division by zero.
C18_ZeroLengthInput ==
    /\ (pc = "scored" /\ proton_density = <<>>) => score = <<>>
    /\ (pc = "flagged" /\ alpha_density = <<>>) =>
           /\ threshold_flags.alpha_flag = <<>>
           /\ threshold_flags.speed_flag = <<>>
           /\ threshold_flags.temp_flag = <<>>
    /\ (pc = "metrics_returned" /\ detections = <<>>) =>
           /\ metrics.true_positives = 0
           /\ metrics.false_positives = 0
           /\ metrics.false_negatives = Cardinality(ReferencePairs)
           /\ metrics.precision[1] = 0 /\ metrics.precision[2] > 0
           /\ metrics.recall[1] = 0 /\ metrics.recall[2] > 0
           /\ metrics.f1_score[1] = 0 /\ metrics.f1_score[2] > 0

\* The metrics of an empty detection table and two rows of one reference
\* event have been returned.
C18_Witness ==
    /\ pc = "metrics_returned"
    /\ detections = <<>>
    /\ Len(synthetic_events) = 2
    /\ metrics.false_negatives = 1

\* The score of empty arrays has been returned.
C18_WitnessScore == pc = "scored" /\ proton_density = <<>> /\ score = <<>>

\* The flags of empty arrays have been returned.
C18_WitnessFlags == pc = "flagged" /\ alpha_density = <<>>

-----------------------------------------------------------------------------
(* Properties of main and of the derivation functions on missing columns *)

\* main is running or has ended.
InMain ==
    pc \in {"main", "main_raised", "score", "scored", "signatures", "thresholds",
            "flagged", "main_returned"}

\* The required variables that the L2 frame does not have.
Absent ==
    {c \in {"proton_density", "proton_bulk_speed", "proton_thermal", "alpha_density"} :
        c \notin DOMAIN L2_BLK_data}

\* C19: with a required variable absent, main raises a KeyError that names
\* the absent variables, before a score is computed or the CSV is written;
\* calculate_alpha_to_proton_ratio and calculate_dynamic_pressure raise
\* ValueError and add no column when a column they need is absent.
C19_MissingFailsLoudly ==
    /\ (InMain /\ Absent # {}) =>
           /\ pc \in {"main", "main_raised"}
           /\ final_output = <<>>
           /\ out_csv = <<>>
           /\ pc = "main_raised" =>
                  /\ main_error.type = "KeyError"
                  /\ {main_error.variables[k] : k \in 1..Len(main_error.variables)} = Absent
    /\ (pc = "ratio_done" /\ ~({"alpha_density", "proton_density"} \subseteq DOMAIN df_arg)) =>
           /\ fn_error = "ValueError"
           /\ "alpha_to_proton_ratio" \notin DOMAIN df_arg
    /\ (pc = "pressure_done" /\ ~({"proton_density", "proton_bulk_speed"} \subseteq DOMAIN df_arg)) =>
           /\ fn_error = "ValueError"
           /\ "P_dyn" \notin DOMAIN df_arg

\* main has raised for a frame of one row that has neither proton_thermal
\* nor alpha_density.
C19_Witness ==
    /\ pc = "main_raised"
    /\ Absent = {"proton_thermal", "alpha_density"}
    /\ Len(L2_BLK_data["proton_density"]) = 1
    /\ main_error.variables = <<"proton_thermal", "alpha_density">>

\* calculate_alpha_to_proton_ratio has raised on a frame without
\* proton_density.
C19_WitnessRatio ==
    /\ pc = "ratio_done"
    /\ DOMAIN df_arg = {"alpha_density", "proton_bulk_speed"}
    /\ fn_error = "ValueError"

\* calculate_dynamic_pressure has raised on a frame without proton_bulk_speed.
C19_WitnessPressure ==
    /\ pc = "pressure_done"
    /\ DOMAIN df_arg = {"alpha_density", "proton_density"}
    /\ fn_error = "ValueError"

\* main has written the CSV of a complete frame.
C19_WitnessWritten == pc = "main_returned" /\ out_csv # <<>> /\ Absent = {}

-----------------------------------------------------------------------------
(* Properties of the handling of a failing instrument *)

\* A step has raised.
StepRaised == pc \in {"load_raised", "derive_raised", "detect_raised"}

\* A step has returned.
StepReturned == pc \in {"loaded", "derived", "detected"}

\* The result map of the step that has returned.
StepMap ==
    CASE pc = "loaded" -> data
      [] pc = "derived" -> processed_data
      [] OTHER -> detection_results

\* The instruments that the step that has returned went through.
StepInstruments ==
    CASE pc = "loaded" -> Instruments
      [] pc = "derived" -> DOMAIN step_before
      [] OTHER -> DOMAIN processed_data

\* What the body of the loop of the step does for instrument x.
StepOut(x) ==
    CASE pc = "loaded" -> load_instrument(x, data_files[x])
      [] pc = "derived" -> derive_instrument(x, step_before[x])
      [] OTHER ->
             IF Len(processed_data[x]) = 0
             THEN [skipped |-> TRUE, raised |-> "", frame |-> <<>>]
             ELSE LET out == Detections(x, processed_data[x])
                  IN  [skipped |-> FALSE,
                       raised |-> IF out.raised THEN "ValueError" ELSE "",
                       frame |-> out.rows]

Logged == {error_log[k] : k \in 1..Len(error_log)}

\* C20: load_data, derive_features and composite_cme_detection never raise;
\* when one has returned, an instrument whose handling raised an exception
\* is in the log and has the entry of the result map that it had before the
\* step, or none as before, and every other instrument that is not skipped
\* has the entry that its handling gives.
C20_FailuresAreIsolated ==
    /\ ~StepRaised
    /\ StepReturned =>
           \A x \in StepInstruments :
               IF StepOut(x).skipped \/ StepOut(x).raised # ""
               THEN /\ x \in Logged <=> ~StepOut(x).skipped
                    /\ x \in DOMAIN StepMap <=> x \in DOMAIN step_before
                    /\ x \in DOMAIN StepMap => StepMap[x] = step_before[x]
               ELSE /\ x \notin Logged
                    /\ x \in DOMAIN StepMap
                    /\ StepMap[x] = StepOut(x).frame

\* load_data has returned: the swepam file was not there and the entry of an
\* earlier load is kept, while the files of mag, epam and sis were read.
C20_Witness ==
    /\ pc = "loaded"
    /\ ~data_files["swepam"].exists
    /\ step_before = EarlierData
    /\ data = EarlierData
    /\ error_log = <<"swepam", "mag", "epam", "sis">>

\* load_data has stored a long swepam file after the mag file made it raise
\* KeyError.
C20_WitnessLoaded ==
    /\ pc = "loaded"
    /\ data_files["mag"].time_columns = "HH_MM"
    /\ step_before = <<>>
    /\ DOMAIN data = {"swepam"}
    /\ error_log = <<"mag", "epam", "sis">>

\* derive_features has returned: swepam has no Ion_Temperature column and
\* keeps its frame, mag and epam have their derived columns.
C20_WitnessDerive ==
    /\ pc = "derived"
    /\ error_log = <<"swepam">>
    /\ processed_data["swepam"] = step_before["swepam"]
    /\ {"mag", "epam"} \subseteq DOMAIN processed_data
    /\ "field_rotation" \in DOMAIN processed_data["mag"][1]
    /\ "proton_enhancement" \in DOMAIN processed_data["epam"][1]

\* composite_cme_detection has returned: swepam raised and has no entry, mag
\* has a new entry in the place of the earlier one.
C20_WitnessDetect ==
    /\ pc = "detected"
    /\ error_log = <<"swepam">>
    /\ step_before = EarlierResults
    /\ "swepam" \notin DOMAIN detection_results
    /\ detection_results["mag"] # EarlierResults["mag"]

-----------------------------------------------------------------------------
(* Termination of the loop of merge_detections *)

\* C21: the while loop of merge_detections ends: every iteration moves i
\* forward, a call in the loop returns, and the events returned are at least
\* one and at most one for every detection.
C21_LoopTerminates ==
    /\ [][(pc = "merge_loop" /\ pc' = "merge_loop") => i' > i]_vars
    /\ [](Merged => (Len(merged_events) >= 1 /\ Len(merged_events) <= Len(combined_events)))
    /\ (pc = "merge_loop") ~> (pc = "merged")

\* The loop has run twice for three detections: the first iteration took two
\* of them and moved i from 0 to 2.
C21_Witness ==
    /\ Merged
    /\ Len(combined_events) = 3
    /\ Len(merged_events) = 2
    /\ Cardinality(window_log[1]) = 2
    /\ i = 3

\* The loop has run once for three detections.
C21_WitnessOne == Merged /\ Len(combined_events) = 3 /\ Len(merged_events) = 1

-----------------------------------------------------------------------------
(* Properties of validate_cme_events(merge_detections()) *)

ValidatedFrame == pc = "validated" /\ validate_result = "frame"

\* C22: with the default window and minimum duration, every valid event has
\* a duration of exactly 2 hours, its start and end being 2 hours apart, and
\* no merged event of a shorter span is among the valid events.
C22_DurationExactlyTwo ==
    ValidatedFrame =>
        /\ \A k \in 1..Len(valid_events) :
               /\ RatEq(valid_events[k].duration_hours, <<2, 1>>)
               /\ valid_events[k].end_time - valid_events[k].start_time = 120
        /\ \A m \in 1..Len(merged_events) :
               merged_events[m].end_time - merged_events[m].start_time < 120 =>
                   \A k \in 1..Len(valid_events) :
                       valid_events[k].start_time # merged_events[m].start_time

\* Two events were merged: the first spans two hours and is valid, the second
\* is a single detection and is discarded.
C22_Witness ==
    /\ ValidatedFrame
    /\ Len(merged_events) = 2
    /\ Len(valid_events) = 1
    /\ valid_events[1].start_time = merged_events[1].start_time
    /\ merged_events[2].end_time = merged_events[2].start_time

-----------------------------------------------------------------------------
(* One match for every detection in _calculate_validation_metrics *)

\* C23: a detection is matched to at most one reference event: the returned
\* true_positives is at most the number of distinct (detection_time,
\* instrument) pairs, and true_positives + false_positives is that number.
C23_OneMatchPerDetection ==
    Returned =>
        /\ metrics.true_positives <= Cardinality(DetectionPairs)
        /\ metrics.true_positives + metrics.false_positives = Cardinality(DetectionPairs)

-----------------------------------------------------------------------------
(* Properties of SWISDataLoader.detect_cme_candidates *)

CandidatesReturned == pc = "candidates_returned"

\* The rows of the analysed frame with an anomaly score of 2 or more.
HotRows == {k \in 1..swis_len : anomaly_score(background, k) >= 2}

\* The run of hot rows first..last is followed by the row last + 1, the first
\* later row with a score below 2.
RunEndsAt(hot, first, last) ==
    /\ first <= last
    /\ \A j \in first..last : j \in hot
    /\ last + 1 <= swis_len
    /\ (last + 1) \notin hot

\* C24: the returned events are pairwise disjoint and in increasing time
\* order, each has start_time < end_time and lasts at least
\* minimum_duration_minutes, its start row and every row before its end row
\* have an anomaly score of 2 or more and its end row is the first later row
\* with a score below 2; a frame of fewer than 1000 rows yields the empty list.
C24_EventsDisjointOrdered ==
    CandidatesReturned =>
        IF swis_len < 1000
        THEN candidates = <<>>
        ELSE LET hot == HotRows
             IN  /\ \A a \in DOMAIN candidates :
                       /\ candidates[a].start_time < candidates[a].end_time
                       /\ candidates[a].duration_minutes[1] >=
                              30 * candidates[a].duration_minutes[2]
                       /\ \E first \in hot : \E last \in hot :
                              /\ RunEndsAt(hot, first, last)
                              /\ candidates[a].start_time = timestamp(first)
                              /\ candidates[a].end_time = timestamp(last + 1)
                 /\ \A a \in DOMAIN candidates : \A b \in DOMAIN candidates :
                       a < b => candidates[a].end_time < candidates[b].start_time

\* Two events came back from one frame.
C24_Witness ==
    /\ CandidatesReturned
    /\ swis_len >= min_rows
    /\ Len(candidates) = 2
    /\ candidates[1].duration_minutes = <<1800, 60>>

\* A frame of 999 rows was given and the empty list came back.
C24_WitnessShort ==
    /\ CandidatesReturned
    /\ swis_len = min_rows - 1
    /\ candidates = <<>>

\* The maximal runs of hot rows: first..last with no hot row just before or
\* just after.
MaximalRuns(hot) ==
    {r \in hot \X hot :
        /\ r[1] <= r[2]
        /\ \A j \in r[1]..r[2] : j \in hot
        /\ (r[1] - 1) \notin hot
        /\ (r[2] + 1) \notin hot}

\* C25: every maximal run of rows with an anomaly score of 2 or more that
\* lasts at least minimum_duration_minutes yields an event in the returned
\* list, wherever it lies in the series; no run is still active at the last
\* row, which has no background.
C25_NoRunLost ==
    (CandidatesReturned /\ swis_len >= min_rows) =>
        LET hot == HotRows
        IN  /\ \A r \in MaximalRuns(hot) :
                  timestamp(r[2]) - timestamp(r[1]) >= 60 * minimum_duration_minutes =>
                      \E a \in DOMAIN candidates :
                          /\ candidates[a].start_time = timestamp(r[1])
                          /\ r[2] < swis_len => candidates[a].end_time = timestamp(r[2] + 1)
            /\ swis_len \notin hot

\* A run of two rows that lasts 30 minutes, at the first rows that have a
\* background, came back as an event.
C25_Witness ==
    /\ CandidatesReturned
    /\ swis_len >= min_rows
    /\ <<FirstFull, FirstFull + 1>> \in MaximalRuns(HotRows)
    /\ timestamp(FirstFull + 1) - timestamp(FirstFull) = 1800
    /\ Len(candidates) = 1
    /\ candidates[1].start_time = timestamp(FirstFull)

\* A run that reaches the last row that has a background came back as an event.
C25_WitnessLate ==
    /\ CandidatesReturned
    /\ swis_len >= min_rows
    /\ \E first \in HotRows :
          /\ <<first, swis_len - window_offset>> \in MaximalRuns(HotRows)
          /\ \E a \in DOMAIN candidates : candidates[a].start_time = timestamp(first)

\* C26: every returned event records in event_strength an anomaly score of 2
\* or more.
C26_StrengthQualifies ==
    CandidatesReturned => \A a \in DOMAIN candidates : candidates[a].event_strength >= 2

-----------------------------------------------------------------------------
(* Properties of detect_events *)

EventsDone == pc = "detect_events_done"

\* Row k of the frame meets the comparison of the call.
Crossing(k) ==
    LET v == events_df.rows[k][events_args.detect_var]
    IN  /\ v # NaN
        /\ \/ events_args.comparison = "above" /\ v > events_args.threshold
           \/ events_args.comparison = "below" /\ v < events_args.threshold

\* The maximal runs of crossing rows that last min_duration or more, as
\* <<first time, last time>>.
LongRuns ==
    LET n == Len(events_df.rows)
        time(k) == events_df.rows[k].time
    IN  {<<time(r[1]), time(r[2])>> : r \in
           {r \in (1..n) \X (1..n) :
               /\ r[1] <= r[2]
               /\ \A k \in r[1]..r[2] : Crossing(k)
               /\ r[1] = 1 \/ ~Crossing(r[1] - 1)
               /\ r[2] = n \/ ~Crossing(r[2] + 1)
               /\ time(r[2]) - time(r[1]) >= events_args.min_duration}}

\* The events are exactly the long runs, each once.
ExactlyTheRuns ==
    /\ {<<events_out[j].start_time, events_out[j].end_time>> : j \in DOMAIN events_out} = LongRuns
    /\ Len(events_out) = Cardinality(LongRuns)
    /\ \A j \in DOMAIN events_out :
          events_out[j].duration = events_out[j].end_time - events_out[j].start_time

\* C27: detect_events returns exactly the maximal runs of rows strictly above
\* (or below) the threshold that last min_duration or more, with start_time
\* and end_time the first and last time of the run; it raises ValueError, and
\* no other error, when the comparison is invalid or a column it reads is
\* missing.
C27_RunsOrValueError ==
    EventsDone =>
        IF \/ events_args.comparison \notin {"above", "below"}
           \/ ColumnsRead(events_args.detect_var) \ events_df.columns # {}
        THEN events_error = "ValueError"
        ELSE events_error = "none" /\ ExactlyTheRuns

\* The part of C27 that the code meets: no error and exactly the long runs
\* when the comparison is valid and no column is missing; ValueError for an
\* invalid comparison or a missing 'time' or detect_var column.
EventsWhenColumnsPresent ==
    EventsDone =>
        /\ (events_error = "none") => ExactlyTheRuns
        /\ (events_error = "none") <=>
              /\ events_args.comparison \in {"above", "below"}
              /\ ColumnsRead(events_args.detect_var) \subseteq events_df.columns
        /\ (events_error = "KeyError") <=>
              /\ events_args.comparison \in {"above", "below"}
              /\ columns_checked(events_args.detect_var) \subseteq events_df.columns
              /\ ColumnsRead(events_args.detect_var) \ events_df.columns # {}

-----------------------------------------------------------------------------
(* Properties of the statistical thresholds *)

SigmaDone == pc = "sigma_done"

\* The detections of every sigma level are among those of every lower level.
SubsetChain ==
    \A lower \in DOMAIN sigma_detections : \A higher \in DOMAIN sigma_detections :
        lower < higher => sigma_detections[higher] \subseteq sigma_detections[lower]

\* C28: the detection timestamps produced with the k-sigma upper thresholds
\* are a subset of those produced with any lower sigma level, for every
\* parameter including Ion_Temperature.
C28_HigherSigmaDetectsLess ==
    SigmaDone => SubsetChain

\* The part of C28 that the code meets: the chain holds for a frame without
\* the Ion_Temperature column, and the speed and density thresholds do make
\* a difference there.
SubsetChainWithoutTemperature ==
    (SigmaDone /\ "Ion_Temperature" \notin sigma_df.columns) => SubsetChain

-----------------------------------------------------------------------------
(* Properties of load_data *)

\* The file of instrument x has rows with a valid date and one of the two
\* time layouts.
HasTimeLayout(x) ==
    /\ data_files[x].exists
    /\ data_files[x].valid > 0
    /\ data_files[x].time_columns \in {"HHMM", "HH_MM"}

\* C29: an instrument file with a single HHMM column and one with separate HH
\* and MM columns (and no HHMM column) are both loaded: the instrument is in
\* self.data after load_data.
C29_BothLayoutsLoaded ==
    (pc = "loaded" /\ step_before = <<>>) =>
        \A x \in Instruments : HasTimeLayout(x) => x \in DOMAIN data

\* The part of C29 that the code meets: a swepam file with the HHMM column
\* and more than downsample_rows rows is loaded.
LongHHMMFileLoaded ==
    (pc = "loaded" /\ step_before = <<>>) =>
        ((HasTimeLayout("swepam") /\ data_files["swepam"].time_columns = "HHMM"
              /\ data_files["swepam"].valid > downsample_rows)
            => "swepam" \in DOMAIN data)

-----------------------------------------------------------------------------
(* Properties of run_full_analysis *)

\* C30: run_full_analysis returns the validated events for every outcome of
\* the merge step: plot_detection_overview does not raise whether
\* merge_detections returns None, an empty table or a non-empty table.
C30_PlotNeverRaises ==
    pc # "analysis_raised"

\* The part of C30 that the code meets: the steps run in order, and the
\* analysis returns after the report when there is nothing to plot or when
\* several instruments gave no detection at all.
AnalysisReturnsWithoutEvents ==
    /\ (pc = "analysis_returned") => (report_written /\ analysis_result = "valid_events"
                                      /\ validate_result # "pending")
    /\ (pc = "analysis_raised") =>
          \/ Cardinality(DOMAIN processed_data) = 1
          \/ merge_result \in {"None", "frame"}
    /\ (pc = "plotted" /\ figure_saved) => merge_result = "empty"

====
